---------------------------- MODULE Spec2Model ----------------------------
(***************************************************************************)
(* Health Metrics Aggregation Engine of stats-converter.                   *)
(*                                                                         *)
(* The engine is a set of pure functions; each is an operator here, and    *)
(* each specification draws the function's inputs in Init and applies the  *)
(* function in an action that stores its result:                           *)
(*   SpecMerge     the two merger implementations (flatMerge, merge)       *)
(*   SpecSleep     the three sleep session groupers                        *)
(*   SpecPipeline  the health pipeline, from the files to the per-day list *)
(*   SpecDerived   the two derived-metrics calculators                     *)
(*   SpecSleepMetrics  the three sleep metrics calculators                 *)
(*   SpecParsers   the file parsers, from the records of a file            *)
(*   SpecTokenizer the two line tokenizers (parseCSVLine)                  *)
(*   SpecExtractDate   the two ParserUtils.extractDate helpers             *)
(*   SpecNumbers   roundToTwoDecimals and the duration strings             *)
(*   SpecCalculations  the derived-metric formulas of the merger           *)
(*   SpecMain      main of process.ts over the three processors            *)
(*   SpecWeeks     createWeeklyMetrics around the turn of a year           *)
(*   SpecGrouping  flatMerge over the groupings of three parser outputs    *)
(*   SpecFrame     flatMerge on objects that the inputs may share          *)
(*                                                                         *)
(* Representation of JavaScript values:                                    *)
(*   - a date string "YYYY-MM-DD" is the tuple <<Y, M, D>> of its three    *)
(*     zero-padded fields, so that comparing the strings is comparing the  *)
(*     tuples field by field;                                              *)
(*   - an optional array is [present |-> BOOLEAN, list |-> sequence];      *)
(*   - an optional string is the string, or Undefined;                     *)
(*   - a metric value is [obj, kind, v]: kind "num" with v in hundredths,  *)
(*     "nan", "inf", "str" (a non-numeric string), and obj = TRUE when it  *)
(*     is wrapped in a {value, unit} object;                               *)
(*   - an object keyed by date (Record<string, DailyMetrics>) is the       *)
(*     sequence of its values in insertion order, which is the order       *)
(*     Object.values gives for keys that are not array indices;            *)
(*   - a call that throws returns [threw |-> TRUE, ...].                   *)
(***************************************************************************)
EXTENDS Integers, Sequences, FiniteSets, TLC

VARIABLES
    pc,           \* which operation has been applied to the drawn input
    metricsSets,  \* DailyMetrics[][] handed to a merger
    merged,       \* DailyMetrics[] a merger returned
    sleepData,    \* HealthRecord[] handed to a sleep session grouper
    sessions,     \* Record<string, HealthRecord[]> a grouper returned
    files,        \* the HK*.csv files of the sources directory
    input,        \* the argument handed to a calculator, parser or tokenizer
    output        \* what the calculator, parser or tokenizer returned

vars == <<pc, metricsSets, merged, sleepData, sessions, files, input, output>>

(***************************************************************************)
(* Bounds                                                                  *)
(***************************************************************************)
\* total number of DailyMetrics over all the sets handed to a merger
MaxRecs == 3

(***************************************************************************)
(* JavaScript helpers                                                      *)
(***************************************************************************)
Undefined == "<undefined>"

NoList == [present |-> FALSE, list |-> <<>>]

SomeList(l) == [present |-> TRUE, list |-> l]

\* metric values: a number in hundredths, NaN, Infinity (v is its sign), a
\* non-numeric string, or null; Pair wraps one into a {value, unit} object
Num(n) == [obj |-> FALSE, kind |-> "num", v |-> n]

NaNValue == [obj |-> FALSE, kind |-> "nan", v |-> 0]

InfValue(sign) == [obj |-> FALSE, kind |-> "inf", v |-> sign]

StrValue == [obj |-> FALSE, kind |-> "str", v |-> 0]

Null == [obj |-> FALSE, kind |-> "null", v |-> 0]

Pair(m) == [m EXCEPT !.obj = TRUE]

\* the value property of a {value, unit} object
ValueOf(m) == [m EXCEPT !.obj = FALSE]

EmptyMetrics == [k \in {} |-> Num(0)]

\* a string is truthy unless it is missing or empty
TruthyString(s) == s # Undefined /\ s # ""

\* all sequences over S of length at most n
RECURSIVE SeqsUpTo(_, _)
SeqsUpTo(S, n) ==
    IF n = 0 THEN {<<>>}
    ELSE LET shorter == SeqsUpTo(S, n - 1)
         IN  shorter \cup {Append(s, x) : s \in {t \in shorter : Len(t) = n - 1}, x \in S}

\* { ...a, ...b } and Object.assign(a, b): b's keys override a's
Spread(a, b) ==
    [k \in (DOMAIN a) \cup (DOMAIN b) |-> IF k \in DOMAIN b THEN b[k] ELSE a[k]]

\* a.localeCompare(b) on date strings: the first differing field decides
RECURSIVE CompareFields(_, _, _)
CompareFields(a, b, i) ==
    IF i > Len(a) /\ i > Len(b) THEN 0
    ELSE IF i > Len(a) THEN -1
    ELSE IF i > Len(b) THEN 1
    ELSE IF a[i] < b[i] THEN -1
    ELSE IF a[i] > b[i] THEN 1
    ELSE CompareFields(a, b, i + 1)

localeCompare(a, b) == CompareFields(a, b, 1)

(***************************************************************************)
(* Timestamps.  A timestamp string "YYYY-MM-DD HH:MM:SS +ZZZZ" is          *)
(* [given, date, tod, off]: its date field, its time of day and its UTC    *)
(* offset, both in milliseconds; given = FALSE is a missing or empty       *)
(* string.  Instants are milliseconds counted from EpochDate 00:00 UTC     *)
(* (the model's dates all lie in the month of EpochDate).                  *)
(***************************************************************************)
EpochDate == <<2025, 8, 24>>

MILLISECONDS_PER_MINUTE == 60000

MsPerDay == 24 * 60 * MILLISECONDS_PER_MINUTE

NoTime == [given |-> FALSE, date |-> <<0, 0, 0>>, tod |-> 0, off |-> 0]

Time(date, tod, off) == [given |-> TRUE, date |-> date, tod |-> tod, off |-> off]

\* a JavaScript number that may be NaN
NaN == [nan |-> TRUE, n |-> 0]

Finite(n) == [nan |-> FALSE, n |-> n]

\* new Date(s).getTime(); new Date("") is an invalid date, whose time is NaN
getTime(ts) ==
    IF ts.given
    THEN Finite((ts.date[3] - EpochDate[3]) * MsPerDay + ts.tod - ts.off)
    ELSE NaN

\* a - b on numbers
Minus(a, b) == IF a.nan \/ b.nan THEN NaN ELSE Finite(a.n - b.n)

\* a > b on numbers: false when either is NaN
GreaterThan(a, b) == ~a.nan /\ ~b.nan /\ a.n > b.n

\* new Date(s).toISOString().split("T")[0]: the UTC calendar date of the instant
ISODate(ts) ==
    LET t == getTime(ts).n
    IN  <<EpochDate[1], EpochDate[2], EpochDate[3] + (t \div MsPerDay)>>

(***************************************************************************)
(* Array.prototype.sort(comparefn).  The comparators of the program:       *)
(*   "date"   (a, b) => a.date.localeCompare(b.date)                       *)
(*   "start"  (a, b) => new Date(a.startDate || "").getTime() -            *)
(*                      new Date(b.startDate || "").getTime()              *)
(* A comparator result of NaN counts as 0 (ECMAScript SortCompare).  The   *)
(* sort is the engine's for arrays shorter than 64 elements: the longest   *)
(* initial run is found (and reversed when strictly descending), and the   *)
(* remaining elements are placed by binary insertion.  With a consistent   *)
(* comparator this is the stable sort; with an inconsistent one (NaN       *)
(* differences) it is the order the engine leaves.                         *)
(***************************************************************************)
Compare(kind, a, b) ==
    IF kind = "date" THEN localeCompare(a.date, b.date)
    ELSE LET d == Minus(getTime(a.startDate), getTime(b.startDate))
         IN  IF d.nan THEN 0 ELSE d.n

Reverse(s) == [i \in 1..Len(s) |-> s[Len(s) + 1 - i]]

\* length of the run starting at a[1], a[2], given that a[1..len] is one
RECURSIVE RunLength(_, _, _, _)
RunLength(kind, a, descending, len) ==
    IF len >= Len(a) THEN len
    ELSE LET order == Compare(kind, a[len + 1], a[len])
         IN  IF (descending /\ order >= 0) \/ (~descending /\ order < 0)
             THEN len
             ELSE RunLength(kind, a, descending, len + 1)

RECURSIVE InsertPos(_, _, _, _, _)
InsertPos(kind, a, pivot, left, right) ==
    IF left >= right THEN left
    ELSE LET mid == left + ((right - left) \div 2)
         IN  IF Compare(kind, pivot, a[mid]) < 0
             THEN InsertPos(kind, a, pivot, left, mid)
             ELSE InsertPos(kind, a, pivot, mid + 1, right)

\* a[1..start-1] is sorted; insert a[start], a[start+1], ... one by one
RECURSIVE BinaryInsertionSort(_, _, _)
BinaryInsertionSort(kind, a, start) ==
    IF start > Len(a) THEN a
    ELSE LET pivot == a[start]
             pos   == InsertPos(kind, a, pivot, 1, start)
             moved == [i \in 1..Len(a) |->
                          IF i < pos \/ i > start THEN a[i]
                          ELSE IF i = pos THEN pivot
                          ELSE a[i - 1]]
         IN  BinaryInsertionSort(kind, moved, start + 1)

ArraySort(kind, a) ==
    IF Len(a) < 2 THEN a
    ELSE LET descending == Compare(kind, a[2], a[1]) < 0
             run        == RunLength(kind, a, descending, 2)
             made       == IF descending
                           THEN Reverse(SubSeq(a, 1, run)) \o SubSeq(a, run + 1, Len(a))
                           ELSE a
         IN  BinaryInsertionSort(kind, made, run + 1)

(***************************************************************************)
(* MetricsMerger.flatMerge (processors/health/parsers/metrics-merger.ts)   *)
(***************************************************************************)
\* index of date's entry in an object keyed by date, 0 when it has none
IndexOfDate(byDate, date) ==
    IF \E i \in 1..Len(byDate) : byDate[i].date = date
    THEN CHOOSE i \in 1..Len(byDate) : byDate[i].date = date
    ELSE 0

\* mutant: the earlier source keeps its value on a key collision
MergeMetricsKeepExisting(existing, incoming) == Spread(incoming, existing)

\* mutant: the incoming metrics replace the existing ones
MergeMetricsReplace(existing, incoming) == incoming

\* existing.metrics = { ...existing.metrics, ...dailyMetrics.metrics }
MergeMetrics(existing, incoming) == Spread(existing, incoming)

\* exercises of an existing entry after one more dailyMetrics: pushed onto the
\* list, or a copy of the incoming list when there was none
MergeExercises(existing, incoming) ==
    IF incoming.present
    THEN IF existing.present
         THEN SomeList(existing.list \o incoming.list)
         ELSE SomeList(incoming.list)
    ELSE existing

\* mutant: the description is overwritten unconditionally
MergeDescriptionOverwrite(existing, incoming) == incoming

\* description of an existing entry after one more dailyMetrics
MergeDescription(existing, incoming) ==
    IF TruthyString(incoming) THEN incoming ELSE existing

\* mutant: a date seen for the first time is entered without its description
FlatMergeOneWithoutDescription(mergedByDate, dailyMetrics) ==
    LET i == IndexOfDate(mergedByDate, dailyMetrics.date)
    IN  IF i = 0
        THEN Append(mergedByDate,
                    [date        |-> dailyMetrics.date,
                     metrics     |-> dailyMetrics.metrics,
                     exercises   |-> dailyMetrics.exercises,
                     description |-> Undefined])
        ELSE LET existing == mergedByDate[i]
             IN  [mergedByDate EXCEPT ![i] =
                    [date        |-> existing.date,
                     metrics     |-> MergeMetrics(existing.metrics, dailyMetrics.metrics),
                     exercises   |-> MergeExercises(existing.exercises, dailyMetrics.exercises),
                     description |-> MergeDescription(existing.description,
                                                      dailyMetrics.description)]]

\* the body of flatMerge's inner loop for one dailyMetrics
FlatMergeOne(mergedByDate, dailyMetrics) ==
    LET i == IndexOfDate(mergedByDate, dailyMetrics.date)
    IN  IF i = 0
        THEN Append(mergedByDate,
                    [date        |-> dailyMetrics.date,
                     metrics     |-> dailyMetrics.metrics,
                     exercises   |-> dailyMetrics.exercises,
                     description |-> dailyMetrics.description])
        ELSE LET existing == mergedByDate[i]
             IN  [mergedByDate EXCEPT ![i] =
                    [date        |-> existing.date,
                     metrics     |-> MergeMetrics(existing.metrics, dailyMetrics.metrics),
                     exercises   |-> MergeExercises(existing.exercises, dailyMetrics.exercises),
                     description |-> MergeDescription(existing.description,
                                                      dailyMetrics.description)]]

\* the inner loop over one metricsSet
RECURSIVE FlatMergeSet(_, _)
FlatMergeSet(mergedByDate, metricsSet) ==
    IF metricsSet = <<>> THEN mergedByDate
    ELSE FlatMergeSet(FlatMergeOne(mergedByDate, Head(metricsSet)), Tail(metricsSet))

\* the outer loop over the metricsSets
RECURSIVE FlatMergeSets(_, _)
FlatMergeSets(mergedByDate, sets) ==
    IF sets = <<>> THEN mergedByDate
    ELSE FlatMergeSets(FlatMergeSet(mergedByDate, Head(sets)), Tail(sets))

\* Object.values(mergedByDate).sort((a, b) => a.date.localeCompare(b.date))
SortByDate(byDate) == ArraySort("date", byDate)

flatMerge(sets) == SortByDate(FlatMergeSets(<<>>, sets))

(***************************************************************************)
(* Arithmetic on JavaScript numbers, exact: a number is [k, p, q], the     *)
(* fraction p/q in lowest terms (k = "fin"), an infinity of sign p         *)
(* (k = "inf") or NaN (k = "nan").                                         *)
(***************************************************************************)
Abs(n) == IF n < 0 THEN -n ELSE n

Sign(n) == IF n < 0 THEN -1 ELSE 1

RECURSIVE GCD(_, _)
GCD(a, b) == IF b = 0 THEN a ELSE GCD(b, a % b)

QNaN == [k |-> "nan", p |-> 0, q |-> 1]

QInf(sign) == [k |-> "inf", p |-> sign, q |-> 1]

\* p/q in lowest terms, q # 0
Q(p, q) ==
    LET g == GCD(Abs(p), Abs(q))
    IN  [k |-> "fin", p |-> Sign(q) * (p \div g), q |-> Abs(q) \div g]

QDiv(a, b) ==
    IF a.k = "nan" \/ b.k = "nan" THEN QNaN
    ELSE IF a.k = "inf" THEN (IF b.k = "inf" THEN QNaN ELSE QInf(a.p * Sign(b.p)))
    ELSE IF b.k = "inf" THEN Q(0, 1)
    ELSE IF b.p = 0 THEN (IF a.p = 0 THEN QNaN ELSE QInf(Sign(a.p)))
    ELSE Q(a.p * b.q, a.q * b.p)

QMul(a, b) ==
    IF a.k = "nan" \/ b.k = "nan" THEN QNaN
    ELSE IF a.k = "inf" \/ b.k = "inf"
         THEN (IF a.p = 0 \/ b.p = 0 THEN QNaN ELSE QInf(Sign(a.p) * Sign(b.p)))
    ELSE Q(a.p * b.p, a.q * b.q)

QOneMinus(a) ==
    IF a.k = "nan" THEN QNaN
    ELSE IF a.k = "inf" THEN QInf(-a.p)
    ELSE Q(a.q - a.p, a.q)

\* the number a metric value coerces to in an arithmetic expression: an object
\* and a non-numeric string give NaN
ToNumber(m) ==
    IF m.obj \/ m.kind \in {"str", "nan"} THEN QNaN
    ELSE IF m.kind = "inf" THEN QInf(m.v)
    ELSE IF m.kind = "null" THEN Q(0, 1)
    ELSE Q(m.v, 100)

\* roundToTwoDecimals: Math.round(value * 100) / 100, as a metric value
roundToTwoDecimals(x) ==
    IF x.k = "nan" THEN NaNValue
    ELSE IF x.k = "inf" THEN InfValue(x.p)
    ELSE Num((200 * x.p + x.q) \div (2 * x.q))

(***************************************************************************)
(* calculations.ts.  A height is carried as its square: Math.sqrt of a     *)
(* negative quotient is NaN, and calculateFFMI divides by height * height. *)
(***************************************************************************)
calculateHeight(bodyMass, bmi) ==
    LET sq == QDiv(bodyMass, bmi)
    IN  IF sq.k # "nan" /\ sq.p < 0 THEN QNaN ELSE sq

calculateFFMI(leanBodyMass, height) == QDiv(leanBodyMass, height)

\* a mutant of calculateBCI: the share of fat in place of the lean share
calculateBCIOfFat(ffmi, bodyFatPercentage) == QMul(ffmi, bodyFatPercentage)

calculateBCI(ffmi, bodyFatPercentage) == QMul(ffmi, QOneMinus(bodyFatPercentage))

(***************************************************************************)
(* MetricsMerger.merge and its derived metrics (processors/health/         *)
(* metrics-merger.ts)                                                      *)
(***************************************************************************)
\* JavaScript truthiness of a metric value
Truthy(m) ==
    \/ m.obj
    \/ m.kind \in {"inf", "str"}
    \/ m.kind = "num" /\ m.v # 0

Has(metrics, key) == key \in DOMAIN metrics /\ Truthy(metrics[key])

\* type-guards.ts
isNumber(m) == ~m.obj /\ m.kind \in {"num", "inf"}

extractNumericValue(metric) ==
    IF isNumber(metric) THEN metric
    ELSE IF metric.obj
         THEN (IF isNumber(ValueOf(metric)) THEN ValueOf(metric) ELSE Null)
    ELSE Null

\* the guard of calculateDerivedMetrics on one date's metrics
MergerHasBaseMetrics(metrics) ==
    /\ Has(metrics, "bodyMass")
    /\ Has(metrics, "bodyMassIndex")
    /\ Has(metrics, "leanBodyMass")
    /\ Has(metrics, "bodyFatPercentage")

\* the body of calculateDerivedMetrics' loop for one date's metrics
MergerDerivedMetrics(metrics) ==
    IF ~MergerHasBaseMetrics(metrics) THEN metrics
    ELSE LET bodyMass          == extractNumericValue(metrics["bodyMass"])
             bmi               == extractNumericValue(metrics["bodyMassIndex"])
             leanBodyMass      == extractNumericValue(metrics["leanBodyMass"])
             bodyFatPercentage == extractNumericValue(metrics["bodyFatPercentage"])
         IN  IF /\ isNumber(bodyMass)
                /\ isNumber(bmi)
                /\ isNumber(leanBodyMass)
                /\ isNumber(bodyFatPercentage)
             THEN LET height == calculateHeight(ToNumber(bodyMass), ToNumber(bmi))
                      ffmi   == calculateFFMI(ToNumber(leanBodyMass), height)
                      bci    == calculateBCI(ffmi,
                                    QDiv(ToNumber(bodyFatPercentage), Q(100, 1)))
                  IN  Spread(metrics,
                             [k \in {"FFMI", "BCI"} |->
                                 IF k = "FFMI"
                                 THEN Pair(roundToTwoDecimals(ffmi))
                                 ELSE Pair(roundToTwoDecimals(bci))])
             ELSE metrics

calculateDerivedMetrics(combined) ==
    [i \in 1..Len(combined) |->
        [combined[i] EXCEPT !.metrics = MergerDerivedMetrics(combined[i].metrics)]]

\* the body of merge's inner loop for one dailyMetric
MergeOne(combined, dailyMetric) ==
    LET i     == IndexOfDate(combined, dailyMetric.date)
        with  == IF i = 0
                 THEN Append(combined,
                             [date        |-> dailyMetric.date,
                              metrics     |-> EmptyMetrics,
                              exercises   |-> NoList,
                              description |-> Undefined])
                 ELSE combined
        j     == IF i = 0 THEN Len(with) ELSE i
    IN  [with EXCEPT ![j].metrics = Spread(with[j].metrics, dailyMetric.metrics)]

RECURSIVE MergeArray(_, _)
MergeArray(combined, metricsArray) ==
    IF metricsArray = <<>> THEN combined
    ELSE MergeArray(MergeOne(combined, Head(metricsArray)), Tail(metricsArray))

RECURSIVE MergeArrays(_, _)
MergeArrays(combined, metricsArrays) ==
    IF metricsArrays = <<>> THEN combined
    ELSE MergeArrays(MergeArray(combined, Head(metricsArrays)), Tail(metricsArrays))

\* merge returns Object.values(combined): the dates in first-occurrence order
merge(metricsArrays) == calculateDerivedMetrics(MergeArrays(<<>>, metricsArrays))

(***************************************************************************)
(* SpecMerge: a merger applied to two parser outputs                       *)
(***************************************************************************)
MergeDates == {<<2025, 8, 17>>, <<2025, 9, 1>>}

\* what a DailyMetrics may hold besides its date
MergeBodies ==
    { [metrics     |-> [k \in {"HeartRate"} |-> Num(7200)],
       exercises   |-> NoList,
       description |-> Undefined],
      [metrics     |-> [k \in {"HeartRate", "StepCount"} |->
                          IF k = "HeartRate" THEN Num(6800) ELSE Num(850000)],
       exercises   |-> SomeList(<<"Bench Press">>),
       description |-> "Push day"],
      [metrics     |-> [k \in {"StepCount"} |-> Num(900000)],
       exercises   |-> SomeList(<<"Squat">>),
       description |-> "Leg day"],
      [metrics     |-> EmptyMetrics,
       exercises   |-> SomeList(<<>>),
       description |-> ""] }

MergeRecords ==
    { [date        |-> d,
       metrics     |-> b.metrics,
       exercises   |-> b.exercises,
       description |-> b.description] : d \in MergeDates, b \in MergeBodies }

\* two parser outputs holding at most MaxRecs DailyMetrics together
MergeInputs ==
    UNION { { <<SubSeq(all, 1, cut), SubSeq(all, cut + 1, Len(all))>> :
                cut \in 0..Len(all) } : all \in SeqsUpTo(MergeRecords, MaxRecs) }

InitMerge ==
    /\ pc = "input"
    /\ metricsSets \in MergeInputs
    /\ merged = <<>>
    /\ sleepData = <<>>
    /\ sessions = [threw |-> FALSE, list |-> <<>>]
    /\ files = <<>>
    /\ input = <<>>
    /\ output = <<>>

\* MetricsMerger.flatMerge(metricsSets)
FlatMerge ==
    /\ pc = "input"
    /\ merged' = flatMerge(metricsSets)
    /\ pc' = "flatMerge"
    /\ UNCHANGED <<metricsSets, sleepData, sessions, files, input, output>>

\* MetricsMerger.flatMerge with the two parser outputs in the other order
FlatMergeSwapped ==
    /\ pc = "input"
    /\ merged' = flatMerge(<<metricsSets[2], metricsSets[1]>>)
    /\ pc' = "flatMergeSwapped"
    /\ UNCHANGED <<metricsSets, sleepData, sessions, files, input, output>>

\* MetricsMerger.merge(metricsSets)
Merge ==
    /\ pc = "input"
    /\ merged' = merge(metricsSets)
    /\ pc' = "merge"
    /\ UNCHANGED <<metricsSets, sleepData, sessions, files, input, output>>

NextMerge == FlatMerge \/ FlatMergeSwapped \/ Merge

SpecMerge == InitMerge /\ [][NextMerge]_vars

(***************************************************************************)
(* Claims on the mergers                                                   *)
(***************************************************************************)
\* the DailyMetrics of a list of parser outputs, in the supplied order
RECURSIVE Flatten(_)
Flatten(sets) == IF sets = <<>> THEN <<>> ELSE Head(sets) \o Flatten(Tail(sets))

\* the DailyMetrics of one date among those of seq, in order
RECURSIVE OfDate(_, _)
OfDate(seq, date) ==
    IF seq = <<>> THEN <<>>
    ELSE IF Head(seq).date = date
         THEN <<Head(seq)>> \o OfDate(Tail(seq), date)
         ELSE OfDate(Tail(seq), date)

DatesOf(seq) == {seq[i].date : i \in 1..Len(seq)}

MetricKeys == {"HeartRate", "StepCount"}

\* one record for each date of the input and no date twice
OnePerDate(out, sets) ==
    /\ DatesOf(out) = DatesOf(Flatten(sets))
    /\ \A i, j \in 1..Len(out) : i # j => out[i].date # out[j].date

\* ascending order of the date strings
AscendingDates(out) ==
    \A i, j \in 1..Len(out) : i < j => localeCompare(out[i].date, out[j].date) < 0

\* C1: both mergers return exactly one DayRecord per distinct input date, no
\* date twice, in ascending order of the date string.
C1_MergersOnePerDateAscending ==
    pc \in {"flatMerge", "merge"} =>
        OnePerDate(merged, metricsSets) /\ AscendingDates(merged)

\* C1, the part the code keeps: flatMerge returns one record per date in
\* ascending order, and merge one record per date in first-occurrence order.
C1_FlatMergeOnePerDateAscending ==
    /\ pc = "flatMerge" => OnePerDate(merged, metricsSets) /\ AscendingDates(merged)
    /\ pc = "merge" => OnePerDate(merged, metricsSets)

\* the last of the DailyMetrics of seq that defines key
RECURSIVE LastDefining(_, _)
LastDefining(seq, key) ==
    IF key \in DOMAIN seq[Len(seq)].metrics THEN seq[Len(seq)]
    ELSE LastDefining(SubSeq(seq, 1, Len(seq) - 1), key)

Defines(seq, key) == \E i \in 1..Len(seq) : key \in DOMAIN seq[i].metrics

\* C2: in flatMerge's result a metric key of a date holds the value of the
\* last DailyMetrics of that date, in supplied order, that defines the key;
\* a key no DailyMetrics of the date defines is absent.
C2_LaterSourceWins ==
    pc = "flatMerge" =>
        \A i \in 1..Len(merged) : \A key \in MetricKeys :
            LET same == OfDate(Flatten(metricsSets), merged[i].date)
            IN  IF Defines(same, key)
                THEN /\ key \in DOMAIN merged[i].metrics
                     /\ merged[i].metrics[key] = LastDefining(same, key).metrics[key]
                ELSE key \notin DOMAIN merged[i].metrics

\* C2 witness: flatMerge has run on two sources that give one key of one date
\* different values, while another key of that date comes from one source only.
C2_Witness ==
    /\ pc = "flatMerge"
    /\ \E a \in 1..Len(metricsSets[1]), b \in 1..Len(metricsSets[2]) :
          LET x == metricsSets[1][a]
              y == metricsSets[2][b]
          IN  /\ x.date = y.date
              /\ "HeartRate" \in DOMAIN x.metrics
              /\ "HeartRate" \in DOMAIN y.metrics
              /\ x.metrics["HeartRate"] # y.metrics["HeartRate"]
              /\ "StepCount" \in DOMAIN x.metrics
              /\ "StepCount" \notin DOMAIN y.metrics

\* the exercises of the DailyMetrics of seq, concatenated in order
RECURSIVE AllExercises(_)
AllExercises(seq) ==
    IF seq = <<>> THEN <<>>
    ELSE Head(seq).exercises.list \o AllExercises(Tail(seq))

\* C3: the exercises of a merged record are the concatenation, in supplied
\* order, of the exercises of all input records of its date.
C3_ExercisesConcatenated ==
    pc \in {"flatMerge", "merge"} =>
        \A i \in 1..Len(merged) :
            merged[i].exercises.list =
                AllExercises(OfDate(Flatten(metricsSets), merged[i].date))

\* C3, the part the code keeps: flatMerge concatenates the exercises.
C3_FlatMergeExercisesConcatenated ==
    pc = "flatMerge" =>
        \A i \in 1..Len(merged) :
            merged[i].exercises.list =
                AllExercises(OfDate(Flatten(metricsSets), merged[i].date))

HasDescription(seq) == \E i \in 1..Len(seq) : TruthyString(seq[i].description)

\* the last non-empty description among the DailyMetrics of seq
RECURSIVE LastDescription(_)
LastDescription(seq) ==
    IF TruthyString(seq[Len(seq)].description) THEN seq[Len(seq)].description
    ELSE LastDescription(SubSeq(seq, 1, Len(seq) - 1))

\* C4: the description of a record flatMerge returns is that of the last input
\* record of its date with a non-empty description, whatever follows it.
C4_LastNonEmptyDescription ==
    pc = "flatMerge" =>
        \A i \in 1..Len(merged) :
            LET same == OfDate(Flatten(metricsSets), merged[i].date)
            IN  /\ HasDescription(same) => merged[i].description = LastDescription(same)
                /\ ~HasDescription(same) => ~TruthyString(merged[i].description)

\* C4 witness: flatMerge has run on a date with two different non-empty
\* descriptions followed by a record with an empty or missing one.
C4_Witness ==
    /\ pc = "flatMerge"
    /\ \E d \in MergeDates :
          LET same == OfDate(Flatten(metricsSets), d)
          IN  /\ Len(same) = 3
              /\ TruthyString(same[1].description)
              /\ TruthyString(same[2].description)
              /\ same[1].description # same[2].description
              /\ ~TruthyString(same[3].description)

\* both parser outputs define key for date
BothDefine(sets, date, key) ==
    /\ Defines(OfDate(sets[1], date), key)
    /\ Defines(OfDate(sets[2], date), key)

\* both parser outputs hold exercises for date
BothExercise(sets, date) ==
    /\ AllExercises(OfDate(sets[1], date)) # <<>>
    /\ AllExercises(OfDate(sets[2], date)) # <<>>

\* both parser outputs hold a non-empty description for date
BothDescribe(sets, date) ==
    /\ HasDescription(OfDate(sets[1], date))
    /\ HasDescription(OfDate(sets[2], date))

\* the two results agree on dates and on every metric not defined by both
SameButSharedMetrics(x, y, sets) ==
    /\ Len(x) = Len(y)
    /\ \A i \in 1..Len(x) :
          /\ x[i].date = y[i].date
          /\ DOMAIN x[i].metrics = DOMAIN y[i].metrics
          /\ \A key \in DOMAIN x[i].metrics :
                ~BothDefine(sets, x[i].date, key) =>
                    x[i].metrics[key] = y[i].metrics[key]

\* an empty and a missing description count as the same
SameDescription(x, y) == (TruthyString(x) \/ TruthyString(y)) => x = y

SLEEP_SESSION_GAP_THRESHOLD_MS == 1800000

\* sessionThreshold of SleepCalculator.groupSleepDataBySession in health.ts
LegacySessionThreshold == 120

\* SLEEP_SESSION_THRESHOLD_MINUTES, imported from ./constants: the 30 minutes
\* of the specification (section 4.3)
SLEEP_SESSION_THRESHOLD_MINUTES == 30

DateKey(date) == [full |-> FALSE, ts |-> Time(date, 0, 0)]

RawKey(ts) == [full |-> TRUE, ts |-> ts]

NoSessions == [threw |-> FALSE, list |-> <<>>]

\* index of the entry of a key, 0 when the object has no such property
RECURSIVE IndexOfKey(_, _, _)
IndexOfKey(list, key, i) ==
    IF i > Len(list) THEN 0
    ELSE IF list[i].key = key THEN i
    ELSE IndexOfKey(list, key, i + 1)

\* sessions[key] = records
SetSession(list, key, records) ==
    LET i == IndexOfKey(list, key, 1)
    IN  IF i = 0
        THEN Append(list, [key |-> key, records |-> records])
        ELSE [list EXCEPT ![i].records = records]

\* the key a SleepCalculator gives the session opened by a record
SessionKey(keyKind, startDate) ==
    IF keyKind = "iso" THEN DateKey(ISODate(startDate)) ELSE RawKey(startDate)

\* one iteration of the loop of SleepCalculator.groupSleepDataBySession;
\* st.cur is the index of sessions[currentSessionStart], 0 for null
CalculatorStep(st, record, thresholdMinutes, keyKind) ==
    IF ~record.startDate.given \/ ~record.endDate.given THEN st
    ELSE
        LET key    == SessionKey(keyKind, record.startDate)
            opened == SetSession(st.list, key, <<record>>)
            open   == [list |-> opened, cur |-> IndexOfKey(opened, key, 1)]
        IN  IF st.cur = 0 THEN open
            ELSE
                LET lastSession == st.list[st.cur].records
                    lastRecord  == lastSession[Len(lastSession)]
                    gap == Minus(getTime(record.startDate), getTime(lastRecord.endDate))
                IN  IF ~lastRecord.endDate.given THEN st
                    ELSE IF GreaterThan(gap, Finite(thresholdMinutes * MILLISECONDS_PER_MINUTE))
                    THEN open
                    ELSE [st EXCEPT !.list[st.cur].records = Append(lastSession, record)]

RECURSIVE CalculatorLoop(_, _, _, _, _)
CalculatorLoop(st, data, i, thresholdMinutes, keyKind) ==
    IF i > Len(data) THEN st
    ELSE CalculatorLoop(CalculatorStep(st, data[i], thresholdMinutes, keyKind),
                        data, i + 1, thresholdMinutes, keyKind)

CalculatorGroup(data, thresholdMinutes, keyKind) ==
    [threw |-> FALSE,
     list  |-> CalculatorLoop([list |-> <<>>, cur |-> 0], ArraySort("start", data), 1,
                              thresholdMinutes, keyKind).list]

\* SleepCalculator.groupSleepDataBySession of sleep-calculator.ts
groupSleepDataBySession(data) ==
    CalculatorGroup(data, SLEEP_SESSION_THRESHOLD_MINUTES, "iso")

\* SleepCalculator.groupSleepDataBySession of health.ts
LegacyGroupSleepDataBySession(data) ==
    CalculatorGroup(data, LegacySessionThreshold, "raw")

\* BaseProcessor.extractDate, called once its argument is known to be a date
extractDate(ts) == DateKey(ISODate(ts))

\* sessions[this.extractDate(sessionData[0].startDate || "")] = sessionData;
\* extractDate throws on the empty string
FlushSession(st) ==
    IF st.threw \/ Len(st.sessionData) = 0 THEN st
    ELSE IF ~st.sessionData[1].startDate.given THEN [st EXCEPT !.threw = TRUE]
    ELSE [st EXCEPT !.list = SetSession(st.list, extractDate(st.sessionData[1].startDate),
                                        st.sessionData)]

\* one iteration of the loop of HealthProcessor.groupSleepDataBySession
ProcessorStep(st, record) ==
    IF st.threw THEN st
    ELSE IF Len(st.sessionData) = 0
            \/ GreaterThan(Minus(getTime(record.startDate),
                                 getTime(st.sessionData[Len(st.sessionData)].endDate)),
                           Finite(SLEEP_SESSION_GAP_THRESHOLD_MS))
    THEN [FlushSession(st) EXCEPT !.sessionData = <<record>>]
    ELSE [st EXCEPT !.sessionData = Append(st.sessionData, record)]

RECURSIVE ProcessorLoop(_, _, _)
ProcessorLoop(st, data, i) ==
    IF i > Len(data) THEN st
    ELSE ProcessorLoop(ProcessorStep(st, data[i]), data, i + 1)

\* HealthProcessor.groupSleepDataBySession of health.ts
ProcessorGroupSleepDataBySession(data) ==
    IF Len(data) = 0 THEN NoSessions
    ELSE LET st == FlushSession(ProcessorLoop(
                       [list |-> <<>>, sessionData |-> <<>>, threw |-> FALSE],
                       ArraySort("start", data), 1))
         IN  [threw |-> st.threw, list |-> IF st.threw THEN <<>> ELSE st.list]

(***************************************************************************)
(* SpecSleep: a list of sleep records is drawn and handed to one of the    *)
(* three groupers.                                                         *)
(***************************************************************************)
\* number of sleep records handed to a grouper
MaxSleep == 3

\* time of day HH:MM:SS in milliseconds
Clock(h, m, s) == ((h * 60 + m) * 60 + s) * 1000

\* UTC offset +HHMM in milliseconds
Offset(h) == Clock(h, 0, 0)

Aug24 == <<2025, 8, 24>>

Aug25 == <<2025, 8, 25>>

\* the sleep records a night is drawn from: 2 starts exactly 30 minutes after
\* 1 ends, 3 starts 30 minutes and 1 second after 2 ends, 4 is a nap the next
\* afternoon in UTC, 5 lacks its start and 6 its end
SleepRecords ==
    { [id |-> 1, startDate |-> Time(Aug24, Clock(23, 30, 0), Offset(3)),
                 endDate   |-> Time(Aug25, Clock(0, 30, 0), Offset(3))],
      [id |-> 2, startDate |-> Time(Aug25, Clock(1, 0, 0), Offset(3)),
                 endDate   |-> Time(Aug25, Clock(2, 0, 0), Offset(3))],
      [id |-> 3, startDate |-> Time(Aug25, Clock(2, 30, 1), Offset(3)),
                 endDate   |-> Time(Aug25, Clock(6, 0, 0), Offset(3))],
      [id |-> 4, startDate |-> Time(Aug25, Clock(14, 0, 0), Offset(0)),
                 endDate   |-> Time(Aug25, Clock(14, 40, 0), Offset(0))],
      [id |-> 5, startDate |-> NoTime,
                 endDate   |-> Time(Aug25, Clock(6, 30, 0), Offset(3))],
      [id |-> 6, startDate |-> Time(Aug25, Clock(0, 40, 0), Offset(3)),
                 endDate   |-> NoTime] }

InitSleep ==
    /\ pc = "input"
    /\ sleepData \in SeqsUpTo(SleepRecords, MaxSleep)
    /\ sessions = NoSessions
    /\ metricsSets = <<>>
    /\ merged = <<>>
    /\ files = <<>>
    /\ input = <<>>
    /\ output = <<>>

\* SleepCalculator.groupSleepDataBySession(sleepData), sleep-calculator.ts
GroupSleepDataBySession ==
    /\ pc = "input"
    /\ sessions' = groupSleepDataBySession(sleepData)
    /\ pc' = "SleepCalculator"
    /\ UNCHANGED <<sleepData, metricsSets, merged, files, input, output>>

\* SleepCalculator.groupSleepDataBySession(sleepData), health.ts
LegacyGroup ==
    /\ pc = "input"
    /\ sessions' = LegacyGroupSleepDataBySession(sleepData)
    /\ pc' = "LegacySleepCalculator"
    /\ UNCHANGED <<sleepData, metricsSets, merged, files, input, output>>

\* HealthProcessor.groupSleepDataBySession(sleepData), health.ts
ProcessorGroup ==
    /\ pc = "input"
    /\ sessions' = ProcessorGroupSleepDataBySession(sleepData)
    /\ pc' = "HealthProcessor"
    /\ UNCHANGED <<sleepData, metricsSets, merged, files, input, output>>

NextSleep == GroupSleepDataBySession \/ LegacyGroup \/ ProcessorGroup

SpecSleep == InitSleep /\ [][NextSleep]_vars

(***************************************************************************)
(* Claims on the sleep session groupers                                    *)
(***************************************************************************)
Stamped(record) == record.startDate.given /\ record.endDate.given

AllStamped(data) == \A i \in 1..Len(data) : Stamped(data[i])

InSession(session, record) ==
    \E j \in 1..Len(session.records) : session.records[j] = record

\* some returned session holds both records
Together(a, b) ==
    \E k \in 1..Len(sessions.list) :
        InSession(sessions.list[k], a) /\ InSession(sessions.list[k], b)

\* some returned session holds one of the records and not the other
Separated(a, b) ==
    \E k \in 1..Len(sessions.list) :
        InSession(sessions.list[k], a) # InSession(sessions.list[k], b)

\* start of the later record minus end of the earlier one, in milliseconds
Gap(earlier, later) == getTime(later.startDate).n - getTime(earlier.endDate).n

ThirtyMinutes == 30 * MILLISECONDS_PER_MINUTE

\* of two records that follow each other in start order, a gap of exactly 30
\* minutes keeps them in one session and a gap of 30 minutes and 1 second
\* puts them in two
ThirtyMinuteBoundary ==
    LET sorted == ArraySort("start", sleepData)
    IN  \A i \in 1..(Len(sorted) - 1) :
            /\ Gap(sorted[i], sorted[i + 1]) = ThirtyMinutes
                   => ~Separated(sorted[i], sorted[i + 1])
            /\ Gap(sorted[i], sorted[i + 1]) = ThirtyMinutes + 1000
                   => ~Together(sorted[i], sorted[i + 1])

\* C8: records 30 minutes apart share a session and records 30 minutes and 1
\* second apart do not, in every grouper of the program.
C8_ThirtyMinuteThresholdEverywhere ==
    (pc # "input" /\ AllStamped(sleepData) /\ ~sessions.threw) => ThirtyMinuteBoundary

\* the same boundary for the two groupers other than the SleepCalculator of
\* health.ts
C8_ThirtyMinuteThresholdElsewhere ==
    (pc \in {"SleepCalculator", "HealthProcessor"} /\ AllStamped(sleepData)
        /\ ~sessions.threw) => ThirtyMinuteBoundary

\* C9: every returned session is keyed by the date component of the start
\* timestamp of its first record, whatever the dates of its later records.
C9_KeyedBySourceStartDate ==
    (pc # "input" /\ AllStamped(sleepData) /\ ~sessions.threw) =>
        \A k \in 1..Len(sessions.list) :
            sessions.list[k].key = DateKey(sessions.list[k].records[1].startDate.date)

\* the key is that of the session's first record and not of a later one: the
\* UTC date of its start (sleep-calculator.ts, HealthProcessor) or its whole
\* start timestamp (SleepCalculator of health.ts)
C9_KeyedByFirstRecord ==
    (pc # "input" /\ AllStamped(sleepData) /\ ~sessions.threw) =>
        \A k \in 1..Len(sessions.list) :
            sessions.list[k].key =
                SessionKey(IF pc = "LegacySleepCalculator" THEN "raw" ELSE "iso",
                           sessions.list[k].records[1].startDate)

\* the records that have both timestamps, in their input order
WithoutUnstamped(data) == SelectSeq(data, Stamped)

\* what the grouper that ran returns for a list of records
Regroup(data) ==
    IF pc = "SleepCalculator" THEN groupSleepDataBySession(data)
    ELSE IF pc = "LegacySleepCalculator" THEN LegacyGroupSleepDataBySession(data)
    ELSE ProcessorGroupSleepDataBySession(data)

\* C10: a record lacking its start or its end timestamp is in no returned
\* session, and the grouper returns what it returns for the input without
\* such records.
C10_UnstampedRecordsSkipped ==
    pc \in {"SleepCalculator", "HealthProcessor"} =>
        /\ ~sessions.threw
        /\ \A k \in 1..Len(sessions.list) :
               \A j \in 1..Len(sessions.list[k].records) :
                   Stamped(sessions.list[k].records[j])
        /\ sessions = Regroup(WithoutUnstamped(sleepData))

\* the SleepCalculator of sleep-calculator.ts puts no such record in a session
C10_SleepCalculatorSessionsStamped ==
    pc = "SleepCalculator" =>
        \A k \in 1..Len(sessions.list) :
            \A j \in 1..Len(sessions.list[k].records) :
                Stamped(sessions.list[k].records[j])

(***************************************************************************)
(* The health pipeline of processors/health/index.ts.  A file is [ok,      *)
(* records]: the HealthRecords parseHKCSV reads from it, or ok = FALSE     *)
(* when reading it throws.  A HealthRecord is [date, type, value,          *)
(* startDate, endDate].  The Sleep metric is an object whose content is    *)
(* not represented.                                                        *)
(***************************************************************************)
BODY_METRICS ==
    { "HKQuantityTypeIdentifierBodyFatPercentage",
      "HKQuantityTypeIdentifierBodyMass",
      "HKQuantityTypeIdentifierBodyMassIndex",
      "HKQuantityTypeIdentifierLeanBodyMass" }

\* type.replace("HKQuantityTypeIdentifier", "")
MeasurementType(type) ==
    CASE type = "HKQuantityTypeIdentifierBodyFatPercentage" -> "BodyFatPercentage"
      [] type = "HKQuantityTypeIdentifierBodyMass"          -> "BodyMass"
      [] type = "HKQuantityTypeIdentifierBodyMassIndex"     -> "BodyMassIndex"
      [] type = "HKQuantityTypeIdentifierLeanBodyMass"      -> "LeanBodyMass"
      [] type = "HKQuantityTypeIdentifierHeartRate"         -> "HeartRate"
      [] type = "HKQuantityTypeIdentifierStepCount"         -> "StepCount"
      [] OTHER                                              -> type

SleepMetricsValue == [obj |-> TRUE, kind |-> "sleep", v |-> 0]

QAdd(a, b) ==
    IF a.k = "nan" \/ b.k = "nan" THEN QNaN
    ELSE IF a.k = "inf" THEN (IF b.k = "inf" /\ b.p # a.p THEN QNaN ELSE a)
    ELSE IF b.k = "inf" THEN b
    ELSE Q(a.p * b.q + b.p * a.q, a.q * b.q)

\* Math.round(value), as a metric value
MathRound(x) ==
    IF x.k = "nan" THEN NaNValue
    ELSE IF x.k = "inf" THEN InfValue(x.p)
    ELSE Num(100 * ((2 * x.p + x.q) \div (2 * x.q)))

\* data.reduce((acc, record) => acc + (record.value as number), 0)
RECURSIVE SumValues(_)
SumValues(data) ==
    IF data = <<>> THEN Q(0, 1)
    ELSE QAdd(ToNumber(Head(data).value), SumValues(Tail(data)))

calculateAverageHeartRate(heartRateData) ==
    roundToTwoDecimals(QDiv(SumValues(heartRateData), Q(Len(heartRateData), 1)))

calculateTotalSteps(stepData) == MathRound(SumValues(stepData))

\* the keys of groupDataByDateAndType(data), in insertion order
RECURSIVE GroupedDates(_, _)
GroupedDates(seen, data) ==
    IF data = <<>> THEN seen
    ELSE GroupedDates(IF \E i \in 1..Len(seen) : seen[i] = Head(data).date
                      THEN seen ELSE Append(seen, Head(data).date),
                      Tail(data))

\* groupDataByDateAndType(data)[date][type], the empty list when undefined
GroupedRecords(data, date, type) ==
    LET OfDateAndType(r) == r.date = date /\ r.type = type
    IN  SelectSeq(data, OfDateAndType)

\* if (!combined[date]) combined[date] = { date, metrics: {} }
EnsureDate(combined, date) ==
    IF IndexOfDate(combined, date) # 0 THEN combined
    ELSE Append(combined, [date        |-> date,
                           metrics     |-> EmptyMetrics,
                           exercises   |-> NoList,
                           description |-> Undefined])

\* combined[date].metrics[key] = value
SetMetric(combined, date, key, value) ==
    LET with == EnsureDate(combined, date)
        i    == IndexOfDate(with, date)
    IN  [with EXCEPT ![i].metrics = Spread(@, [k \in {key} |-> value])]

\* BodyCompositionProcessor.processMetrics for one date
BodyCompositionOfDate(data, combined, date) ==
    LET present == {t \in BODY_METRICS : Len(GroupedRecords(data, date, t)) > 0}
        first   == [k \in {MeasurementType(t) : t \in present} |->
                       LET t == CHOOSE t \in present : MeasurementType(t) = k
                       IN  GroupedRecords(data, date, t)[1].value]
        with    == EnsureDate(combined, date)
        i       == IndexOfDate(with, date)
    IN  [with EXCEPT ![i].metrics = Spread(@, first)]

RECURSIVE BodyCompositionLoop(_, _, _)
BodyCompositionLoop(data, combined, dates) ==
    IF dates = <<>> THEN combined
    ELSE BodyCompositionLoop(data, BodyCompositionOfDate(data, combined, Head(dates)),
                             Tail(dates))

BodyCompositionProcessor(data, combined) ==
    BodyCompositionLoop(data, combined, GroupedDates(<<>>, data))

\* GenericQuantityProcessor.processMetrics; calculateValue is never null on
\* a list that is not empty
RECURSIVE GenericQuantityLoop(_, _, _, _)
GenericQuantityLoop(data, combined, dates, type) ==
    IF dates = <<>> THEN combined
    ELSE LET metricData == GroupedRecords(data, Head(dates), type)
             value == IF type = "HKQuantityTypeIdentifierHeartRate"
                      THEN calculateAverageHeartRate(metricData)
                      ELSE calculateTotalSteps(metricData)
         IN  GenericQuantityLoop(
                 data,
                 IF Len(metricData) > 0
                 THEN SetMetric(combined, Head(dates), MeasurementType(type), value)
                 ELSE combined,
                 Tail(dates), type)

GenericQuantityProcessor(data, combined, type) ==
    GenericQuantityLoop(data, combined, GroupedDates(<<>>, data), type)

RECURSIVE collectAllSleepData(_, _)
collectAllSleepData(data, dates) ==
    IF dates = <<>> THEN <<>>
    ELSE GroupedRecords(data, Head(dates), "HKCategoryTypeIdentifierSleepAnalysis")
             \o collectAllSleepData(data, Tail(dates))

RECURSIVE processSleepSessions(_, _)
processSleepSessions(sleepSessions, combined) ==
    IF sleepSessions = <<>> THEN combined
    ELSE processSleepSessions(
             Tail(sleepSessions),
             SetMetric(combined, Head(sleepSessions).key.ts.date, "Sleep",
                       SleepMetricsValue))

SleepMetricsProcessor(data, combined) ==
    LET allSleepData == collectAllSleepData(data, GroupedDates(<<>>, data))
    IN  IF Len(allSleepData) > 0
        THEN processSleepSessions(groupSleepDataBySession(allSleepData).list, combined)
        ELSE combined

\* the guard of DerivedMetricsProcessor.processMetrics on one date's metrics
ProcessorHasBaseMetrics(measurements) ==
    /\ Has(measurements, "BodyMass")
    /\ Has(measurements, "BodyMassIndex")
    /\ Has(measurements, "LeanBodyMass")
    /\ Has(measurements, "BodyFatPercentage")

\* the body of DerivedMetricsProcessor.processMetrics' loop
ProcessorDerivedMetrics(measurements) ==
    IF ~ProcessorHasBaseMetrics(measurements) THEN measurements
    ELSE LET bodyMass          == ToNumber(measurements["BodyMass"])
             bmi               == ToNumber(measurements["BodyMassIndex"])
             leanBodyMass      == ToNumber(measurements["LeanBodyMass"])
             bodyFatPercentage == ToNumber(measurements["BodyFatPercentage"])
             height == calculateHeight(bodyMass, bmi)
             ffmi   == calculateFFMI(leanBodyMass, height)
             bci    == calculateBCI(ffmi, QDiv(bodyFatPercentage, Q(100, 1)))
         IN  Spread(measurements,
                    [k \in {"FFMI", "BCI"} |->
                        IF k = "FFMI" THEN roundToTwoDecimals(ffmi)
                        ELSE roundToTwoDecimals(bci)])

DerivedMetricsProcessor(combined) ==
    [i \in 1..Len(combined) |->
        [combined[i] EXCEPT !.metrics = ProcessorDerivedMetrics(combined[i].metrics)]]

\* HealthCSVParser.convertToDailyMetrics: the five processors in order
convertToDailyMetrics(records) ==
    DerivedMetricsProcessor(
        SleepMetricsProcessor(records,
            GenericQuantityProcessor(records,
                GenericQuantityProcessor(records,
                    BodyCompositionProcessor(records, <<>>),
                    "HKQuantityTypeIdentifierHeartRate"),
                "HKQuantityTypeIdentifierStepCount")))

\* HealthCSVParser.parseFile: a file that cannot be read gives []
parseFile(file) == IF file.ok THEN convertToDailyMetrics(file.records) ELSE <<>>

RECURSIVE ParserMetrics(_)
ParserMetrics(supportedFiles) ==
    IF supportedFiles = <<>> THEN <<>>
    ELSE parseFile(Head(supportedFiles)) \o ParserMetrics(Tail(supportedFiles))

\* HealthProcessor.processAllFiles: one parser, HealthCSVParser
processAllFiles(supportedFiles) ==
    LET parserMetrics == ParserMetrics(supportedFiles)
    IN  IF Len(parserMetrics) > 0 THEN <<parserMetrics>> ELSE <<>>

\* HealthProcessor.process, up to unifiedDailyMetrics
process(supportedFiles) == flatMerge(processAllFiles(supportedFiles))

(***************************************************************************)
(* SpecPipeline: the HK*.csv files of the sources directory are drawn and  *)
(* processed.                                                              *)
(***************************************************************************)
\* number of files in the sources directory
MaxFiles == 4

Quantity(date, type, value) ==
    [date |-> date, type |-> type, value |-> Num(value),
     startDate |-> NoTime, endDate |-> NoTime]

Readable(records) == [ok |-> TRUE, records |-> records]

\* HKBodyMass.csv, HKBodyMassIndex.csv, HKLeanBodyMass.csv and
\* HKBodyFatPercentage.csv with a measurement of 24 August each, a file with
\* the four measurements of 25 August, HKStepCount.csv, HKSleepAnalysis.csv
\* and a file that cannot be read
HealthFiles ==
    { Readable(<<Quantity(Aug24, "HKQuantityTypeIdentifierBodyMass", 8000),
                 Quantity(Aug24, "HKQuantityTypeIdentifierBodyMass", 8100)>>),
      Readable(<<Quantity(Aug24, "HKQuantityTypeIdentifierBodyMassIndex", 2500)>>),
      Readable(<<Quantity(Aug24, "HKQuantityTypeIdentifierLeanBodyMass", 6400)>>),
      Readable(<<Quantity(Aug24, "HKQuantityTypeIdentifierBodyFatPercentage", 2000)>>),
      Readable(<<Quantity(Aug25, "HKQuantityTypeIdentifierBodyMass", 8000),
                 Quantity(Aug25, "HKQuantityTypeIdentifierBodyMassIndex", 2500),
                 Quantity(Aug25, "HKQuantityTypeIdentifierLeanBodyMass", 6400),
                 Quantity(Aug25, "HKQuantityTypeIdentifierBodyFatPercentage", 2000)>>),
      Readable(<<Quantity(Aug24, "HKQuantityTypeIdentifierStepCount", 120040),
                 Quantity(Aug24, "HKQuantityTypeIdentifierStepCount", 80030)>>),
      Readable(<<[date |-> Aug24, type |-> "HKCategoryTypeIdentifierSleepAnalysis",
                  value |-> StrValue,
                  startDate |-> Time(Aug24, Clock(23, 30, 0), Offset(0)),
                  endDate   |-> Time(Aug25, Clock(6, 0, 0), Offset(0))]>>),
      [ok |-> FALSE, records |-> <<>>] }

InitPipeline ==
    /\ pc = "input"
    /\ files \in SeqsUpTo(HealthFiles, MaxFiles)
    /\ input = <<>>
    /\ output = <<>>
    /\ metricsSets = <<>>
    /\ merged = <<>>
    /\ sleepData = <<>>
    /\ sessions = NoSessions

\* HealthProcessor.process(): processAllFiles, then MetricsMerger.flatMerge
Process ==
    /\ pc = "input"
    /\ metricsSets' = processAllFiles(files)
    /\ merged' = process(files)
    /\ pc' = "process"
    /\ UNCHANGED <<files, sleepData, sessions, input, output>>

NextPipeline == Process

SpecPipeline == InitPipeline /\ [][NextPipeline]_vars

(***************************************************************************)
(* Claims on the pipeline                                                  *)
(***************************************************************************)
\* some readable file holds a measurement of the type on the date
Measured(date, type) ==
    \E f \in 1..Len(files) :
        /\ files[f].ok
        /\ \E r \in 1..Len(files[f].records) :
               /\ files[f].records[r].date = date
               /\ files[f].records[r].type = type
               /\ isNumber(files[f].records[r].value)
               /\ files[f].records[r].value.v # 0

BaseMetricsMeasured(date) == \A t \in BODY_METRICS : Measured(date, t)

HasDerivedMetrics(date) ==
    \E i \in 1..Len(merged) :
        /\ merged[i].date = date
        /\ {"FFMI", "BCI"} \subseteq DOMAIN merged[i].metrics

\* C6: a date whose four base metrics arrive from whichever files carries
\* FFMI and BCI in the final per-day list.
C6_DerivedMetricsAfterMerge ==
    pc = "process" =>
        \A date \in {Aug24, Aug25} : BaseMetricsMeasured(date) => HasDerivedMetrics(date)

\* the derived metrics are those of one file: a date carries FFMI and BCI
\* exactly when a single readable file holds its four base metrics
C6_DerivedMetricsPerFile ==
    pc = "process" =>
        \A date \in {Aug24, Aug25} :
            HasDerivedMetrics(date) <=>
                \E f \in 1..Len(files) :
                    /\ files[f].ok
                    /\ \A t \in BODY_METRICS :
                           Len(GroupedRecords(files[f].records, date, t)) > 0

(***************************************************************************)
(* SpecDerived: the derived metrics of a two-day list.  The base metrics   *)
(* of 24 August are drawn, each absent or one of BaseValues; 25 August     *)
(* holds four measurements.  The keys are those MetricsMerger reads        *)
(* (bodyMass, ...) or those DerivedMetricsProcessor reads (BodyMass, ...). *)
(***************************************************************************)
BaseKeys(style) ==
    IF style = "merger"
    THEN <<"bodyMass", "bodyMassIndex", "leanBodyMass", "bodyFatPercentage">>
    ELSE <<"BodyMass", "BodyMassIndex", "LeanBodyMass", "BodyFatPercentage">>

\* the measurements of 25 August: 80 kg, BMI 25, 64 kg lean, 20 % fat
Measurements == <<8000, 2500, 6400, 2000>>

Absent == [obj |-> FALSE, kind |-> "absent", v |-> 0]

\* what a base metric of 24 August is: absent, zero, its measurement, either
\* of them in a {value, unit} pair, a string that is no number, or NaN
BaseValues(i) ==
    { Absent, Num(0), Num(Measurements[i]), Pair(Num(0)), Pair(Num(Measurements[i])),
      StrValue, NaNValue }

\* the metrics object holding the values that are not absent
MetricsOf(style, values) ==
    [k \in {BaseKeys(style)[i] : i \in {j \in 1..4 : values[j] # Absent}} |->
        values[CHOOSE i \in 1..4 : BaseKeys(style)[i] = k]]

DerivedInputs ==
    { << << [date        |-> Aug24,
             metrics     |-> MetricsOf(style, values),
             exercises   |-> NoList,
             description |-> Undefined],
            [date        |-> Aug25,
             metrics     |-> MetricsOf(style, [i \in 1..4 |-> Num(Measurements[i])]),
             exercises   |-> NoList,
             description |-> Undefined] >> >> :
        style \in {"merger", "processor"},
        values \in [1..4 -> UNION {BaseValues(i) : i \in 1..4}] \cap
                   {v \in [1..4 -> UNION {BaseValues(i) : i \in 1..4}] :
                        \A i \in 1..4 : v[i] \in BaseValues(i)} }

InitDerived ==
    /\ pc = "input"
    /\ metricsSets \in DerivedInputs
    /\ merged = <<>>
    /\ sleepData = <<>>
    /\ sessions = NoSessions
    /\ files = <<>>
    /\ input = <<>>
    /\ output = <<>>

\* DerivedMetricsProcessor.processMetrics(groupedData, combined)
DerivedProcess ==
    /\ pc = "input"
    /\ merged' = DerivedMetricsProcessor(metricsSets[1])
    /\ pc' = "DerivedMetricsProcessor"
    /\ UNCHANGED <<metricsSets, sleepData, sessions, files, input, output>>

NextDerived == Merge \/ DerivedProcess

SpecDerived == InitDerived /\ [][NextDerived]_vars

(***************************************************************************)
(* Claims on the derived metrics                                           *)
(***************************************************************************)
\* the keys the operation that ran reads
StyleOf == IF pc = "merge" THEN "merger" ELSE "processor"

\* the input metrics hold the keys of the operation that ran
InOwnStyle ==
    \A k \in DOMAIN metricsSets[1][2].metrics :
        \E i \in 1..4 : BaseKeys(StyleOf)[i] = k

\* a base metric that is absent, zero or not a number, bare or in a pair
Deficient(metrics, key) ==
    \/ key \notin DOMAIN metrics
    \/ LET bare == IF metrics[key].obj THEN ValueOf(metrics[key]) ELSE metrics[key]
       IN  bare.kind # "num" \/ bare.v = 0

SomeDeficient(metrics) == \E i \in 1..4 : Deficient(metrics, BaseKeys(StyleOf)[i])

NoDerived(metrics) == "FFMI" \notin DOMAIN metrics /\ "BCI" \notin DOMAIN metrics

\* FFMI 20 and BCI 16, as the operation that ran stores them
DerivedAsUsual(metrics) ==
    /\ {"FFMI", "BCI"} \subseteq DOMAIN metrics
    /\ metrics["FFMI"] = IF pc = "merge" THEN Pair(Num(2000)) ELSE Num(2000)
    /\ metrics["BCI"] = IF pc = "merge" THEN Pair(Num(1600)) ELSE Num(1600)

\* C7: a date with a base metric absent, zero or non-numeric, bare or in a
\* {value, unit} pair, gets no FFMI and no BCI, and the other date gets its
\* derived metrics as usual.
C7_SilentSkip ==
    (pc # "input" /\ InOwnStyle) =>
        /\ Len(merged) = 2
        /\ SomeDeficient(metricsSets[1][1].metrics) => NoDerived(merged[1].metrics)
        /\ DerivedAsUsual(merged[2].metrics)

\* a base metric that is absent, or a bare zero or a bare NaN
BareDeficient(metrics, key) ==
    \/ key \notin DOMAIN metrics
    \/ ~metrics[key].obj /\ (metrics[key].kind = "nan" \/ metrics[key] = Num(0))

\* the skip both operations do make: on a base metric that is absent, a bare
\* zero or a bare NaN
C7_SkipOnFalsyBaseMetric ==
    (pc # "input" /\ InOwnStyle) =>
        /\ Len(merged) = 2
        /\ (\E i \in 1..4 : BareDeficient(metricsSets[1][1].metrics, BaseKeys(StyleOf)[i]))
               => NoDerived(merged[1].metrics)
        /\ DerivedAsUsual(merged[2].metrics)

(***************************************************************************)
(* Sleep metrics calculators.  A session record is [value, duration]:      *)
(* value is the stage string, or NotAString for a value that is no string; *)
(* duration is in minutes, NoDuration when the property is missing.  A     *)
(* duration string "<hours>h <minutes>m" is [h, m, pad], pad telling       *)
(* whether the minutes are padded to two digits.  The implementations:     *)
(*   "SleepCalculator"        sleep-calculator.ts                          *)
(*   "LegacySleepCalculator"  SleepCalculator of health.ts                 *)
(*   "HealthProcessor"        HealthProcessor of health.ts                 *)
(***************************************************************************)
NotAString == "<number>"

NoDuration == -1

ASLEEP_STATES == {"asleepCore", "asleepDeep", "asleepREM"}

MINUTES_PER_HOUR == 60

formatTimeFromMinutes(minutes, impl) ==
    [h   |-> minutes \div MINUTES_PER_HOUR,
     m   |-> minutes % MINUTES_PER_HOUR,
     pad |-> impl = "HealthProcessor"]

\* the loop of calculateSleepMetrics from record i on; acc holds the counters
\* of sleepMetrics and previousState ("" for null)
RECURSIVE SleepMetricsLoop(_, _, _, _)
SleepMetricsLoop(acc, data, i, impl) ==
    IF i > Len(data) THEN acc
    ELSE
        LET record   == data[i]
            duration == IF record.duration = NoDuration THEN 0 ELSE record.duration
            state    == record.value
            \* sleep-calculator.ts switches on the five stages; health.ts
            \* adds to whichever property of sleepMetrics the state names
            counted  == IF impl = "SleepCalculator"
                        THEN state \in (DOMAIN acc) \ {"wakeUps", "previousState"}
                        ELSE state \in (DOMAIN acc) \ {"previousState"}
            added    == IF counted THEN [acc EXCEPT ![state] = @ + duration] ELSE acc
            wokeUp   == /\ acc.previousState # ""
                        /\ acc.previousState \in ASLEEP_STATES
                        /\ state = "awake"
            next     == [added EXCEPT !.wakeUps = IF wokeUp THEN @ + 1 ELSE @,
                                      !.previousState = state]
        IN  IF impl = "SleepCalculator" /\ state = NotAString
            THEN SleepMetricsLoop(acc, data, i + 1, impl)
            ELSE SleepMetricsLoop(next, data, i + 1, impl)

\* a total that counts the time in bed and awake as sleep
TotalSleepWithInBedAndAwake(sleepMetrics) ==
    sleepMetrics.asleepCore + sleepMetrics.asleepDeep + sleepMetrics.asleepREM
        + sleepMetrics.inBed + sleepMetrics.awake

TotalSleep(sleepMetrics) ==
    sleepMetrics.asleepCore + sleepMetrics.asleepDeep + sleepMetrics.asleepREM

\* calculateSleepMetrics(sleepData); [null |-> TRUE] for null.  The durations
\* are whole minutes, as SleepAnalysisParser.calculateDurationMinutes rounds
\* them, so that Math.round leaves each sum as it is.
calculateSleepMetrics(data, impl) ==
    IF Len(data) = 0
    THEN [null |-> TRUE, Core |-> <<>>, Deep |-> <<>>, REM |-> <<>>, Total |-> <<>>,
          wakeUps |-> 0]
    ELSE
        LET sleepMetrics == SleepMetricsLoop(
                [inBed |-> 0, asleepCore |-> 0, asleepDeep |-> 0, asleepREM |-> 0,
                 awake |-> 0, wakeUps |-> 0, previousState |-> ""],
                data, 1, impl)
            totalSleep == TotalSleep(sleepMetrics)
        IN  [null    |-> FALSE,
             Core    |-> formatTimeFromMinutes(sleepMetrics.asleepCore, impl),
             Deep    |-> formatTimeFromMinutes(sleepMetrics.asleepDeep, impl),
             REM     |-> formatTimeFromMinutes(sleepMetrics.asleepREM, impl),
             Total   |-> formatTimeFromMinutes(totalSleep, impl),
             wakeUps |-> sleepMetrics.wakeUps]

(***************************************************************************)
(* SpecSleepMetrics: the records of a session are drawn and handed to one  *)
(* of the three calculators.                                               *)
(***************************************************************************)
\* number of records of a session
MaxStages == 5

\* the records a session is drawn from; "wakeUps" is a stage no calculator
\* recognizes
StageRecords ==
    { [value |-> "asleepCore", duration |-> 45],
      [value |-> "asleepDeep", duration |-> 20],
      [value |-> "asleepREM",  duration |-> 50],
      [value |-> "awake",      duration |-> 5],
      [value |-> "inBed",      duration |-> 30],
      [value |-> "wakeUps",    duration |-> 7],
      [value |-> NotAString,   duration |-> NoDuration] }

InitSleepMetrics ==
    /\ pc = "input"
    /\ input \in SeqsUpTo(StageRecords, MaxStages)
    /\ output = <<>>
    /\ metricsSets = <<>>
    /\ merged = <<>>
    /\ sleepData = <<>>
    /\ sessions = NoSessions
    /\ files = <<>>

\* calculateSleepMetrics(input) of one of the three implementations
CalculateSleepMetrics ==
    /\ pc = "input"
    /\ \E impl \in {"SleepCalculator", "LegacySleepCalculator", "HealthProcessor"} :
           /\ output' = calculateSleepMetrics(input, impl)
           /\ pc' = impl
    /\ UNCHANGED <<input, metricsSets, merged, sleepData, sessions, files>>

SpecSleepMetrics == InitSleepMetrics /\ [][CalculateSleepMetrics]_vars

(***************************************************************************)
(* Claims on the sleep metrics                                             *)
(***************************************************************************)
\* the positions where an asleep stage is immediately followed by awake
WakeUpPositions ==
    {i \in 1..(Len(input) - 1) :
        input[i].value \in ASLEEP_STATES /\ input[i + 1].value = "awake"}

\* C11: wakeUps is the number of positions of the session where a record of
\* an asleep stage is immediately followed by a record of stage awake.
C11_WakeUpsCountsAsleepToAwake ==
    (pc # "input" /\ Len(input) > 0) => output.wakeUps = Cardinality(WakeUpPositions)

\* the same count in sessions whose values are all strings and none is the
\* name of the counter
C11_WakeUpsOnStageNames ==
    (pc # "input" /\ Len(input) > 0
        /\ \A i \in 1..Len(input) : input[i].value \notin {"wakeUps", NotAString})
        => output.wakeUps = Cardinality(WakeUpPositions)

\* the minutes a duration string shows
ShownMinutes(shown) == shown.h * MINUTES_PER_HOUR + shown.m

\* the minutes the records of a stage add up to
RECURSIVE StageMinutes(_, _)
StageMinutes(data, stage) ==
    IF data = <<>> THEN 0
    ELSE (IF Head(data).value = stage /\ Head(data).duration # NoDuration
          THEN Head(data).duration ELSE 0) + StageMinutes(Tail(data), stage)

\* C12: the Total of a SleepSummary is the sum of its Core, Deep and REM, and
\* these show the minutes of the asleepCore, asleepDeep and asleepREM records
\* alone, whatever the session holds of inBed, awake or unrecognized stages.
C12_TotalIsCorePlusDeepPlusREM ==
    (pc = "SleepCalculator" /\ Len(input) > 0) =>
        /\ ShownMinutes(output.Total) =
               ShownMinutes(output.Core) + ShownMinutes(output.Deep)
                   + ShownMinutes(output.REM)
        /\ ShownMinutes(output.Core) = StageMinutes(input, "asleepCore")
        /\ ShownMinutes(output.Deep) = StageMinutes(input, "asleepDeep")
        /\ ShownMinutes(output.REM) = StageMinutes(input, "asleepREM")
        /\ output.Total.m < MINUTES_PER_HOUR

\* a session of more than an hour of sleep with time in bed, awake and in an
\* unrecognized stage
C12_Witness ==
    /\ pc = "SleepCalculator"
    /\ Len(input) = 5
    /\ {input[i].value : i \in 1..Len(input)} =
           {"asleepCore", "asleepREM", "inBed", "awake", "wakeUps"}
    /\ output.Total = [h |-> 1, m |-> 35, pad |-> FALSE]

(***************************************************************************)
(* Parsers.  A CSVRecord is [type, sourceName, n, startDate, endDate,      *)
(* value]: n is fields.length, startDate and endDate are fields[5] and     *)
(* fields[6], and value is parseFloat(fields[8]), a number or NaN.  The    *)
(* date key of a record is the date of its startDate.  The file parsers:   *)
(*   "StepCountFileParser"     step-count-file-parser.ts                   *)
(*   "StepCountFileParserSum"  the StepCountFileParser that sums           *)
(*   "BodyMassFileParser"                                                  *)
(* The nested heartRate object of HeartRateFileParser is held as the three *)
(* keys heartRate.average, heartRate.max and heartRate.min.                *)
(***************************************************************************)
\* the records of a file parser's loop that pass its two guards
Accepted(records, parser) ==
    LET Passes(record) ==
            /\ ~(record.n < 9)
            /\ CASE parser = "StepCountFileParser" -> record.sourceName = "Zepp Life"
                 [] parser = "StepCountFileParserSum" ->
                        record.sourceName \in {"Zepp Life", "Mi Fitness"}
                 [] OTHER -> TRUE
    IN  SelectSeq(records, Passes)

\* the loop of parseFile of a file parser over the records from i on
RECURSIVE FileParserLoop(_, _, _, _)
FileParserLoop(dailyMetrics, records, i, parser) ==
    IF i > Len(records) THEN dailyMetrics
    ELSE
        LET record  == records[i]
            dateKey == record.startDate.date
            with    == EnsureDate(dailyMetrics, dateKey)
            metrics == with[IndexOfDate(with, dateKey)].metrics
            key     == IF parser = "BodyMassFileParser" THEN "bodyMass" ELSE "stepCount"
            currentSteps == IF key \in DOMAIN metrics THEN ToNumber(metrics[key])
                            ELSE Q(0, 1)
            value   == IF parser = "StepCountFileParserSum"
                       THEN roundToTwoDecimals(QAdd(currentSteps, record.value))
                       ELSE roundToTwoDecimals(record.value)
        IN  FileParserLoop(SetMetric(with, dateKey, key, value), records, i + 1, parser)

\* values.reduce((sum, val) => sum + val, 0), Math.max(...values) and
\* Math.min(...values); a NaN among the values makes each of them NaN
RECURSIVE Reduce(_, _)
Reduce(values, op) ==
    IF Len(values) = 1 /\ op # "sum" THEN Head(values)
    ELSE IF values = <<>> THEN Q(0, 1)
    ELSE LET a == Head(values)
             b == Reduce(Tail(values), op)
         IN  IF op = "sum" THEN QAdd(a, b)
             ELSE IF a.k = "nan" \/ b.k = "nan" THEN QNaN
             ELSE IF (a.p * b.q > b.p * a.q) = (op = "max") THEN a ELSE b

\* HeartRateFileParser.parseFile
HeartRateFileParser(records) ==
    LET read  == Accepted(records, "HeartRateFileParser")
        dated == [i \in 1..Len(read) |-> [date |-> read[i].startDate.date,
                                          type |-> "", value |-> read[i].value]]
        dates == GroupedDates(<<>>, dated)
    IN  [d \in 1..Len(dates) |->
            LET data   == GroupedRecords(dated, dates[d], "")
                values == [i \in 1..Len(data) |-> data[i].value]
            IN  [date        |-> dates[d],
                 metrics     |->
                     [k \in {"heartRate.average", "heartRate.max", "heartRate.min"} |->
                         Pair(roundToTwoDecimals(
                             IF k = "heartRate.average"
                             THEN QDiv(Reduce(values, "sum"), Q(Len(values), 1))
                             ELSE IF k = "heartRate.max" THEN Reduce(values, "max")
                             ELSE Reduce(values, "min")))],
                 exercises   |-> NoList,
                 description |-> Undefined]]

\* HealthCSVParser.parseCSVRecord: the HealthRecord of the first record
\* parser that claims the record, <<>> for null
parseCSVRecord(record) ==
    LET parsed(value) == <<[date      |-> record.startDate.date,
                            type      |-> record.type,
                            value     |-> value,
                            startDate |-> record.startDate,
                            endDate   |-> record.endDate]>>
        quantity(value) == [parsed(value) EXCEPT ![1].startDate = NoTime,
                                                 ![1].endDate = NoTime]
    IN  IF record.n < 8 THEN <<>>
        ELSE IF record.type = "HKCategoryTypeIdentifierSleepAnalysis"
        THEN parsed(StrValue)
        ELSE IF record.type = "HKQuantityTypeIdentifierStepCount"
                /\ record.sourceName = "Zepp Life"
        THEN (IF record.n < 9 THEN <<>> ELSE quantity(roundToTwoDecimals(record.value)))
        ELSE IF record.type # "HKCategoryTypeIdentifierSleepAnalysis"
                /\ record.type # "HKQuantityTypeIdentifierStepCount"
        THEN (IF record.n < 9 THEN <<>>
              ELSE IF record.type = "HKQuantityTypeIdentifierBodyFatPercentage"
              THEN quantity(roundToTwoDecimals(QMul(record.value, Q(100, 1))))
              ELSE quantity(roundToTwoDecimals(record.value)))
        ELSE <<>>

\* HealthCSVParser.parseHKCSV, from the records of the data lines on
RECURSIVE parseHKCSV(_)
parseHKCSV(records) ==
    IF records = <<>> THEN <<>>
    ELSE parseCSVRecord(Head(records)) \o parseHKCSV(Tail(records))

\* parseFile of a parser on the records of a file
ParseFile(records, parser) ==
    IF parser = "HealthCSVParser" THEN convertToDailyMetrics(parseHKCSV(records))
    ELSE IF parser = "HeartRateFileParser" THEN HeartRateFileParser(records)
    ELSE FileParserLoop(<<>>, Accepted(records, parser), 1, parser)

(***************************************************************************)
(* SpecParsers: one parser reads the records of a file.                    *)
(***************************************************************************)
MaxLines == 3

\* two accepted step records of 24 August whose sum needs rounding, a step
\* record of "Mi Fitness" and one of an iPhone, two body mass records of
\* 24 August, one whose value is no number, one with eight fields, a record
\* of a type no measurement is made of, and a sleep interval
CSVRecords ==
    LET Line(type, sourceName, n, date, h, value) ==
            [type |-> type, sourceName |-> sourceName, n |-> n,
             startDate |-> Time(date, Clock(h, 0, 0), Offset(0)),
             endDate   |-> Time(date, Clock(h + 1, 0, 0), Offset(0)),
             value |-> value]
    IN  { Line("HKQuantityTypeIdentifierStepCount", "Zepp Life", 9, Aug24, 9, Q(10004, 1000)),
          Line("HKQuantityTypeIdentifierStepCount", "Zepp Life", 9, Aug24, 10, Q(20004, 1000)),
          Line("HKQuantityTypeIdentifierStepCount", "Mi Fitness", 9, Aug24, 11, Q(300, 1)),
          Line("HKQuantityTypeIdentifierStepCount", "iPhone 11", 9, Aug25, 12, Q(22, 1)),
          Line("HKQuantityTypeIdentifierBodyMass", "Renpho", 9, Aug24, 7, Q(805, 10)),
          Line("HKQuantityTypeIdentifierBodyMass", "Renpho", 9, Aug24, 8, Q(8125, 100)),
          Line("HKQuantityTypeIdentifierBodyMass", "Renpho", 9, Aug25, 7, QNaN),
          Line("HKQuantityTypeIdentifierBodyMass", "Renpho", 8, Aug25, 8, Q(79, 1)),
          Line("HKQuantityTypeIdentifierFlightsClimbed", "iPhone 11", 9, Aug25, 9, Q(3, 1)),
          Line("HKCategoryTypeIdentifierSleepAnalysis", "Zepp Life", 8, Aug24, 23, Q(0, 1)),
          Line("HKCategoryTypeIdentifierSleepAnalysis", "Zepp Life", 8, Aug25, 0, Q(0, 1)) }

FileParsers ==
    {"StepCountFileParser", "StepCountFileParserSum", "BodyMassFileParser",
     "HeartRateFileParser", "HealthCSVParser"}

InitParsers ==
    /\ pc = "input"
    /\ input \in SeqsUpTo(CSVRecords, MaxLines)
    /\ output = <<>>
    /\ metricsSets = <<>>
    /\ merged = <<>>
    /\ sleepData = <<>>
    /\ sessions = NoSessions
    /\ files = <<>>

\* parser.parseFile(filePath) on a file holding the records
RunParser ==
    /\ pc = "input"
    /\ \E parser \in FileParsers :
        /\ output' = ParseFile(input, parser)
        /\ pc' = parser
    /\ UNCHANGED <<input, metricsSets, merged, sleepData, sessions, files>>

SpecParsers == InitParsers /\ [][RunParser]_vars

\* the records of the input without the step records of other sources
WithoutOtherSources ==
    LET Kept(record) == ~(/\ record.type = "HKQuantityTypeIdentifierStepCount"
                          /\ record.sourceName # "Zepp Life")
    IN  SelectSeq(input, Kept)

\* C13: a step record whose source is not "Zepp Life" contributes nothing to
\* any date's step count and creates no DayRecord: each parser that reads
\* step records gives what it gives without the step records of other sources
C13_OnlyZeppLifeSteps ==
    pc \in {"StepCountFileParser", "StepCountFileParserSum", "HealthCSVParser"}
        => output = ParseFile(WithoutOtherSources, pc)

\* the same of the parsers other than the StepCountFileParser that sums
C13_OnlyZeppLifeStepsUnlessSummed ==
    pc \in {"StepCountFileParser", "HealthCSVParser"}
        => output = ParseFile(WithoutOtherSources, pc)

\* the total of the values, rounded to two decimals after each addition
RECURSIVE RunningTotal(_)
RunningTotal(values) ==
    IF values = <<>> THEN Q(0, 1)
    ELSE ToNumber(roundToTwoDecimals(
             QAdd(RunningTotal(SubSeq(values, 1, Len(values) - 1)),
                  values[Len(values)])))

\* the values of the records of a date that the parser accepts, in input order
AcceptedValues(parser, date) ==
    LET OnDate(record) == record.startDate.date = date
        records == SelectSeq(Accepted(input, parser), OnDate)
    IN  [i \in 1..Len(records) |-> records[i].value]

\* C14: for every date, the step count a step-count parser emits is the sum of
\* the values of the accepted records of that date, the running total rounded
\* to two decimals after each addition
C14_StepsSummedPerDate ==
    pc \in {"StepCountFileParser", "StepCountFileParserSum"}
        => \A i \in DOMAIN output :
               ToNumber(output[i].metrics.stepCount)
                   = RunningTotal(AcceptedValues(pc, output[i].date))

\* the same of the StepCountFileParser that sums
C14_StepsSummedBySummingParser ==
    pc = "StepCountFileParserSum"
        => \A i \in DOMAIN output :
               ToNumber(output[i].metrics.stepCount)
                   = RunningTotal(AcceptedValues(pc, output[i].date))

\* a file where the parser that sums has added three records of one date
C14_ThreeAdded ==
    /\ pc = "StepCountFileParserSum"
    /\ \E i \in DOMAIN output : Len(AcceptedValues(pc, output[i].date)) = 3

\* the body mass records of a date that the parser reads, in input order
BodyMassRecords(parser, date) ==
    LET Read(record) ==
            /\ record.startDate.date = date
            /\ ~(record.n < 9)
            /\ parser = "HealthCSVParser"
                   => record.type = "HKQuantityTypeIdentifierBodyMass"
    IN  SelectSeq(input, Read)

\* the output holds one DayRecord of the date, with the body mass of the last
\* of the body mass records of that date
LastBodyMassWins(parser, date) ==
    LET records == BodyMassRecords(parser, date)
        key     == IF parser = "HealthCSVParser" THEN "BodyMass" ELSE "bodyMass"
    IN  records # <<>> =>
            /\ Cardinality({i \in DOMAIN output : output[i].date = date}) = 1
            /\ \A i \in DOMAIN output :
                   output[i].date = date =>
                       /\ key \in DOMAIN output[i].metrics
                       /\ output[i].metrics[key]
                              = roundToTwoDecimals(records[Len(records)].value)

\* C15: when several body mass records fall on the same date, the value
\* emitted for that date is that of the last such record in input order, and
\* the parser emits exactly one DayRecord per distinct date
C15_LastValueWins ==
    pc \in {"BodyMassFileParser", "HealthCSVParser"}
        => \A date \in {Aug24, Aug25} : LastBodyMassWins(pc, date)

\* the same of BodyMassFileParser alone
C15_LastValueWinsInFileParser ==
    pc = "BodyMassFileParser"
        => \A date \in {Aug24, Aug25} : LastBodyMassWins(pc, date)

\* the records of the input with at least the fields their kind needs
WithoutShortRecords ==
    LET Long(record) ==
            ~(record.n < (IF record.type = "HKCategoryTypeIdentifierSleepAnalysis"
                          THEN 8 ELSE 9))
    IN  SelectSeq(input, Long)

\* of those, the records whose value is a number
WithoutMalformedRecords ==
    LET Parsable(record) == record.value.k # "nan"
    IN  SelectSeq(WithoutShortRecords, Parsable)

\* every metric value of the output other than the sleep summary is a number
WellFormedNumbers ==
    \A i \in DOMAIN output :
        \A key \in DOMAIN output[i].metrics \ {"Sleep"} :
            output[i].metrics[key].kind = "num"

\* C16: a record with too few fields or with a value that is no number is
\* skipped by its parser, adding no metric and no DayRecord, and every metric
\* value of a parser's output is a well-formed number
C16_MalformedRecordsSkipped ==
    pc \in FileParsers
        => /\ output = ParseFile(WithoutMalformedRecords, pc)
           /\ WellFormedNumbers

\* a record with too few fields is skipped by its parser
C16_ShortRecordsSkipped ==
    pc \in FileParsers => output = ParseFile(WithoutShortRecords, pc)

\* the metric types the engine makes a measurement of
RecognizedTypes ==
    BODY_METRICS \union {"HKCategoryTypeIdentifierSleepAnalysis",
                         "HKQuantityTypeIdentifierStepCount",
                         "HKQuantityTypeIdentifierHeartRate"}

\* the records of the input whose type is recognized
WithoutUnknownTypes ==
    LET Known(record) == record.type \in RecognizedTypes
    IN  SelectSeq(input, Known)

\* the DayRecords that hold a metric, in no order
WithMetrics(dailyMetrics) ==
    {dailyMetrics[i] : i \in {j \in DOMAIN dailyMetrics :
                                 DOMAIN dailyMetrics[j].metrics # {}}}

\* C17: a raw record whose metric type is not recognized is claimed by no
\* parser and changes nothing in the per-day output: it adds no metric and no
\* DayRecord for its date
C17_UnknownTypeDropped ==
    pc = "HealthCSVParser"
        => output = ParseFile(WithoutUnknownTypes, "HealthCSVParser")

\* a record of an unrecognized type adds no metric to any DayRecord
C17_UnknownTypeAddsNoMetric ==
    pc = "HealthCSVParser"
        => WithMetrics(output)
               = WithMetrics(ParseFile(WithoutUnknownTypes, "HealthCSVParser"))

(***************************************************************************)
(* parseCSVLine.  A line and a field are sequences of characters; line[i]  *)
(* of the code is line[i + 1] here, and a read past the end is undefined.  *)
(***************************************************************************)
Quote == "\""

\* String.prototype.trim, of the space
RECURSIVE trim(_)
trim(s) ==
    IF s # <<>> /\ Head(s) = " " THEN trim(Tail(s))
    ELSE IF s # <<>> /\ s[Len(s)] = " " THEN trim(SubSeq(s, 1, Len(s) - 1))
    ELSE s

\* the loop of parseCSVLine from index i on: ParserUtils.parseCSVLine, and
\* BaseProcessor.parseCSVLine, which toggles on every quote and trims
RECURSIVE parseCSVLineLoop(_, _, _, _, _, _)
parseCSVLineLoop(line, i, result, current, inQuotes, impl) ==
    LET char == line[i + 1]
        At(j) == IF j + 1 \in DOMAIN line THEN line[j + 1] ELSE Undefined
    IN  IF ~(i < Len(line))
        THEN IF impl = "BaseProcessor" THEN Append(result, trim(current))
             ELSE IF current # <<>> THEN Append(result, current)
             ELSE result
        ELSE IF impl = "BaseProcessor"
        THEN IF char = Quote
             THEN parseCSVLineLoop(line, i + 1, result, current, ~inQuotes, impl)
             ELSE IF char = "," /\ ~inQuotes
             THEN parseCSVLineLoop(line, i + 1, Append(result, trim(current)), <<>>,
                                   inQuotes, impl)
             ELSE parseCSVLineLoop(line, i + 1, result, Append(current, char),
                                   inQuotes, impl)
        ELSE IF char = Quote /\ (i = 0 \/ At(i - 1) = ",")
        THEN parseCSVLineLoop(line, i + 1, result, current, TRUE, impl)
        ELSE IF char = Quote /\ inQuotes /\ At(i + 1) = ","
        THEN parseCSVLineLoop(line, i + 2, Append(result, current), <<>>, FALSE, impl)
        ELSE IF char = Quote /\ inQuotes /\ i = Len(line) - 1
        THEN parseCSVLineLoop(line, i + 1, Append(result, current), <<>>, FALSE, impl)
        ELSE IF char = "," /\ ~inQuotes
        THEN parseCSVLineLoop(line, i + 1, Append(result, current), <<>>, inQuotes, impl)
        ELSE parseCSVLineLoop(line, i + 1, result, Append(current, char), inQuotes, impl)

parseCSVLine(line, impl) == parseCSVLineLoop(line, 0, <<>>, <<>>, FALSE, impl)

(***************************************************************************)
(* SpecTokenizer: a tokenizer reads a line.                                *)
(***************************************************************************)
MaxChars == 5

\* "a" stands for a character that no helper looks for
Chars == {"a", "T", " ", ",", Quote}

InitTokenizer ==
    /\ pc = "input"
    /\ input \in SeqsUpTo(Chars, MaxChars)
    /\ output = <<>>
    /\ metricsSets = <<>>
    /\ merged = <<>>
    /\ sleepData = <<>>
    /\ sessions = NoSessions
    /\ files = <<>>

\* parseCSVLine(line) of ParserUtils or of BaseProcessor
ParseCSVLine ==
    /\ pc = "input"
    /\ \E impl \in {"ParserUtils", "BaseProcessor"} :
        /\ output' = parseCSVLine(input, impl)
        /\ pc' = impl
    /\ UNCHANGED <<input, metricsSets, merged, sleepData, sessions, files>>

SpecTokenizer == InitTokenizer /\ [][ParseCSVLine]_vars

\* the positions of the delimiters outside quoted segments: a comma with an
\* even number of quotes before it
OutsideDelimiters ==
    {i \in DOMAIN input :
        /\ input[i] = ","
        /\ Cardinality({j \in 1..(i - 1) : input[j] = Quote}) % 2 = 0}

\* the fields between the delimiters outside quoted segments, without the
\* quote characters
FieldsOutsideQuotes ==
    LET cut == OutsideDelimiters \union {0, Len(input) + 1}
        NotQuote(c) == c # Quote
        Field(from) ==
            LET to == CHOOSE t \in cut : t > from /\ \A u \in cut : u > from => t <= u
            IN  SelectSeq(SubSeq(input, from + 1, to - 1), NotQuote)
        start(n) == CHOOSE f \in cut :
                        Cardinality({c \in cut : c < f}) = n - 1
    IN  [n \in 1..(Cardinality(cut) - 1) |-> Field(start(n))]

\* C18: for a line that is not empty the tokenizer returns the fields obtained
\* by splitting at exactly the delimiters outside quoted segments, the quote
\* characters removed; the content after the last such delimiter is the final
\* field
C18_SplitOutsideQuotes ==
    pc \in {"ParserUtils", "BaseProcessor"} /\ input # <<>>
        => output = FieldsOutsideQuotes

\* BaseProcessor.parseCSVLine returns those fields, each trimmed
C18_BaseProcessorSplitsAndTrims ==
    pc = "BaseProcessor" /\ input # <<>>
        => output = [n \in DOMAIN FieldsOutsideQuotes |-> trim(FieldsOutsideQuotes[n])]

\* C19: tokenizing an empty line returns the empty sequence of fields, not a
\* sequence holding one empty field
C19_EmptyLineNoFields ==
    pc \in {"ParserUtils", "BaseProcessor"} /\ input = <<>> => output = <<>>

\* ParserUtils.parseCSVLine returns no field for an empty line
C19_EmptyLineNoFieldsInParserUtils ==
    pc = "ParserUtils" /\ input = <<>> => output = <<>>

(***************************************************************************)
(* ParserUtils.extractDate: dateString.split(separator)[0], the separator  *)
(* /[T ]/ in parsers/base.ts and " " in parsers/parser-utils.ts.           *)
(***************************************************************************)
RECURSIVE FirstPiece(_, _)
FirstPiece(dateString, separators) ==
    IF dateString = <<>> \/ Head(dateString) \in separators THEN <<>>
    ELSE <<Head(dateString)>> \o FirstPiece(Tail(dateString), separators)

ParserUtilsExtractDate(dateString, impl) ==
    FirstPiece(dateString, IF impl = "parsers/base.ts" THEN {"T", " "} ELSE {" "})

\* ParserUtils.extractDate(dateString) of one of the two files
ExtractDate ==
    /\ pc = "input"
    /\ \E impl \in {"parsers/base.ts", "parsers/parser-utils.ts"} :
        /\ output' = ParserUtilsExtractDate(input, impl)
        /\ pc' = impl
    /\ UNCHANGED <<input, metricsSets, merged, sleepData, sessions, files>>

SpecExtractDate == InitTokenizer /\ [][ExtractDate]_vars

\* the part of the string before the first of the characters
Before(characters) ==
    LET at == {i \in DOMAIN input : input[i] \in characters}
    IN  IF at = {} THEN input
        ELSE SubSeq(input, 1, (CHOOSE i \in at : \A j \in at : i <= j) - 1)

\* C20: date extraction returns the part of the timestamp before its first
\* space or first 'T', whichever comes first, in every date-extraction helper
C20_BeforeFirstSpaceOrT ==
    pc \in {"parsers/base.ts", "parsers/parser-utils.ts"}
        => output = Before({" ", "T"})

\* the helper of parsers/base.ts does; the one of parsers/parser-utils.ts
\* returns the part before the first space
C20_BeforeFirstSpaceOrTInBase ==
    /\ pc = "parsers/base.ts" => output = Before({" ", "T"})
    /\ pc = "parsers/parser-utils.ts" => output = Before({" "})

(***************************************************************************)
(* SpecNumbers: a numeric helper is applied to a whole number, which       *)
(* roundToTwoDecimals reads as a count of thousandths and the duration     *)
(* formatters as a count of minutes.                                       *)
(***************************************************************************)
MaxNumber == 130

InitNumbers ==
    /\ pc = "input"
    /\ input \in (0 - MaxNumber)..MaxNumber
    /\ output = <<>>
    /\ metricsSets = <<>>
    /\ merged = <<>>
    /\ sleepData = <<>>
    /\ sessions = NoSessions
    /\ files = <<>>

\* roundToTwoDecimals(input / 1000), of ParserUtils and of BaseProcessor
RoundToTwoDecimals ==
    /\ pc = "input"
    /\ output' = roundToTwoDecimals(Q(input, 1000))
    /\ pc' = "roundToTwoDecimals"
    /\ UNCHANGED <<input, metricsSets, merged, sleepData, sessions, files>>

(***************************************************************************)
(* Duration strings, as sequences of characters.                           *)
(***************************************************************************)
DecimalDigits == <<"0", "1", "2", "3", "4", "5", "6", "7", "8", "9">>

\* a mutant of Digits: the digits of n, the last one first
RECURSIVE DigitsReversed(_)
DigitsReversed(n) ==
    IF n < 10 THEN <<DecimalDigits[n + 1]>>
    ELSE <<DecimalDigits[(n % 10) + 1]>> \o DigitsReversed(n \div 10)

\* String(n) of a whole number n >= 0
RECURSIVE Digits(_)
Digits(n) ==
    IF n < 10 THEN <<DecimalDigits[n + 1]>>
    ELSE Digits(n \div 10) \o <<DecimalDigits[(n % 10) + 1]>>

\* `${hours}h ${mins}m`, with mins.toString().padStart(2, "0") when padded
TimeString(time) ==
    Digits(time.h) \o <<"h", " ">>
        \o (IF time.pad /\ time.m < 10 THEN <<"0">> ELSE <<>>)
        \o Digits(time.m) \o <<"m">>

\* the first index from i on whose character is not in the set
RECURSIVE RunEnd(_, _, _)
RunEnd(s, i, characters) ==
    IF i > Len(s) \/ s[i] \notin characters THEN i
    ELSE RunEnd(s, i + 1, characters)

\* parseInt(digits, 10)
RECURSIVE parseInt(_)
parseInt(digits) ==
    IF digits = <<>> THEN 0
    ELSE 10 * parseInt(SubSeq(digits, 1, Len(digits) - 1))
         + (CHOOSE d \in 0..9 : DecimalDigits[d + 1] = digits[Len(digits)])

\* parseTimeToMinutes: the leftmost match of /(\d+)h\s*(\d+)m/, 0 without one
parseTimeToMinutes(timeString) ==
    LET digit     == {DecimalDigits[d] : d \in DOMAIN DecimalDigits}
        hoursEnd(i) == RunEnd(timeString, i, digit)
        minsFrom(i) == RunEnd(timeString, hoursEnd(i) + 1, {" "})
        minsEnd(i)  == RunEnd(timeString, minsFrom(i), digit)
        Matches(i) ==
            /\ hoursEnd(i) > i
            /\ hoursEnd(i) <= Len(timeString) /\ timeString[hoursEnd(i)] = "h"
            /\ minsEnd(i) > minsFrom(i)
            /\ minsEnd(i) <= Len(timeString) /\ timeString[minsEnd(i)] = "m"
        starts == {i \in DOMAIN timeString : Matches(i)}
    IN  IF starts = {} THEN 0
        ELSE LET i == CHOOSE i \in starts : \A j \in starts : i <= j
             IN  parseInt(SubSeq(timeString, i, hoursEnd(i) - 1)) * 60
                 + parseInt(SubSeq(timeString, minsFrom(i), minsEnd(i) - 1))

\* formatTimeFromMinutes(input) of the sleep calculator or of HealthProcessor,
\* and parseTimeToMinutes of the string it gives
FormatAndParse ==
    /\ pc = "input"
    /\ ~(input < 0)
    /\ \E impl \in {"SleepCalculator", "HealthProcessor"} :
        LET time == formatTimeFromMinutes(input, impl)
        IN  /\ output' = [time    |-> time,
                          string  |-> TimeString(time),
                          minutes |-> parseTimeToMinutes(TimeString(time))]
            /\ pc' = impl
    /\ UNCHANGED <<input, metricsSets, merged, sleepData, sessions, files>>

NextNumbers == RoundToTwoDecimals \/ FormatAndParse

SpecNumbers == InitNumbers /\ [][NextNumbers]_vars

\* C28: for every whole number of minutes m >= 0 the string that
\* formatTimeFromMinutes(m) produces has a minutes part between 0 and 59 and
\* parseTimeToMinutes of that string returns m, unpadded and zero-padded
C28_DurationRoundTrip ==
    pc \in {"SleepCalculator", "HealthProcessor"}
        => /\ output.time.m \in 0..59
           /\ output.string = TimeString(output.time)
           /\ output.minutes = input

\* 65 minutes have been formatted with padding, as "1h 05m", and parsed
C28_Witness ==
    /\ pc = "HealthProcessor"
    /\ input = 65
    /\ output.string = <<"1", "h", " ", "0", "5", "m">>
    /\ output.minutes = 65

\* the hundredths nearest to a count of thousandths, a tie resolved away
\* from zero
HalfAwayFromZero(thousandths) == Sign(thousandths) * ((Abs(thousandths) + 5) \div 10)

\* C21: roundToTwoDecimals rounds to the nearest hundredth and resolves an
\* exact tie away from zero, for positive and for negative values alike
C21_TiesAwayFromZero ==
    pc = "roundToTwoDecimals" => output = Num(HalfAwayFromZero(input))

\* roundToTwoDecimals rounds to the nearest hundredth and resolves an exact
\* tie upwards: away from zero for a positive value, towards zero for a
\* negative one
C21_TiesUpwards ==
    pc = "roundToTwoDecimals"
        => /\ output.kind = "num"
           /\ Abs(10 * output.v - input) <= 5
           /\ Abs(10 * output.v - input) = 5 => 10 * output.v > input

(***************************************************************************)
(* SpecCalculations: MetricsMerger.merge on one date that holds the four   *)
(* base metrics, each a measurement, bare or in a {value, unit} pair.      *)
(***************************************************************************)
\* body mass, BMI, lean body mass and body fat percentage, in hundredths
BaseMeasurements ==
    << {7500, 8000, 7200}, {2422, 2500, 2250}, {6000, 6400, 5850}, {1500, 2000, 2500} >>

CalculationInputs ==
    { << << [date        |-> Aug24,
             metrics     |-> MetricsOf("merger", values),
             exercises   |-> NoList,
             description |-> Undefined] >> >> :
        values \in {v \in [1..4 -> UNION {{Num(n), Pair(Num(n))} :
                                            n \in UNION {BaseMeasurements[i] : i \in 1..4}}] :
                        \A i \in 1..4 : v[i].v \in BaseMeasurements[i]} }

InitCalculations ==
    /\ pc = "input"
    /\ metricsSets \in CalculationInputs
    /\ merged = <<>>
    /\ sleepData = <<>>
    /\ sessions = NoSessions
    /\ files = <<>>
    /\ input = <<>>
    /\ output = <<>>

SpecCalculations == InitCalculations /\ [][Merge]_vars

\* the hundredths of a base metric of the input date
Measurement(key) == metricsSets[1][1].metrics[key].v

\* v hundredths is nearest to the number x
Nearest(v, x) == x.k = "fin" /\ 2 * Abs(100 * x.p - v * x.q) <= x.q

\* leanBodyMass / (bodyMass / bmi)
ExactFFMI ==
    Q(Measurement("leanBodyMass") * Measurement("bodyMassIndex"),
      100 * Measurement("bodyMass"))

\* C22: with the four base metrics present and non-zero, the stored FFMI is
\* leanBodyMass / height^2 with height = sqrt(bodyMass / bmi) and the stored
\* BCI is FFMI * (1 - bodyFatPercentage / 100), each rounded to two decimals
C22_DerivedMetricFormulas ==
    pc = "merge" =>
        LET metrics == merged[1].metrics
        IN  /\ {"FFMI", "BCI"} \subseteq DOMAIN metrics
            /\ metrics["FFMI"].obj /\ metrics["FFMI"].kind = "num"
            /\ Nearest(metrics["FFMI"].v, ExactFFMI)
            /\ metrics["BCI"].obj /\ metrics["BCI"].kind = "num"
            /\ Nearest(metrics["BCI"].v,
                       QMul(ExactFFMI,
                            Q(10000 - Measurement("bodyFatPercentage"), 10000)))

\* body mass 75, BMI 24.22, lean body mass 60 and 15 percent body fat have
\* given FFMI 19.38 and BCI 16.47
C22_Witness ==
    /\ pc = "merge"
    /\ Measurement("bodyMass") = 7500
    /\ Measurement("bodyMassIndex") = 2422
    /\ Measurement("leanBodyMass") = 6000
    /\ Measurement("bodyFatPercentage") = 1500
    /\ merged[1].metrics["FFMI"] = Pair(Num(1938))
    /\ merged[1].metrics["BCI"] = Pair(Num(1647))

(***************************************************************************)
(* SpecMain: main of process.ts.  input is the set of the processors whose *)
(* constructor or process() throws in this run, files the HK*.csv files of *)
(* the sources directory, output the outcome logged for each processor.    *)
(***************************************************************************)
MaxSources == 2

\* the processors array of main
Processors == <<"Training", "Health", "Macros">>

InitMain ==
    /\ pc = "main"
    /\ input \in SUBSET {Processors[i] : i \in DOMAIN Processors}
    /\ files \in SeqsUpTo(HealthFiles, MaxSources)
    /\ output = <<>>
    /\ metricsSets = <<>>
    /\ merged = <<>>
    /\ sleepData = <<>>
    /\ sessions = NoSessions

\* a mutant of Callback: an error ends the forEach
CallbackUncaught ==
    /\ pc = "main"
    /\ Len(output) < Len(Processors)
    /\ LET name == Processors[Len(output) + 1]
       IN  IF name \in input
           THEN pc' = "completed" /\ output' = output
           ELSE /\ output' = Append(output, [name |-> name, result |-> "processed"])
                /\ pc' = pc

\* one call of the forEach callback, as main sees it:
\* try { new config.processor().process() } catch (error) { console.error(...) }
Callback ==
    /\ pc = "main"
    /\ Len(output) < Len(Processors)
    /\ LET name == Processors[Len(output) + 1]
       IN  output' = Append(output, [name   |-> name,
                                     result |-> IF name \in input THEN "error"
                                                ELSE "processed"])
    /\ pc' = pc

\* the callback with what HealthProcessor.process() computes
RunProcessor ==
    /\ Callback
    /\ merged' = IF Processors[Len(output) + 1] = "Health" /\ "Health" \notin input
                 THEN process(files) ELSE merged
    /\ UNCHANGED <<input, files, metricsSets, sleepData, sessions>>

\* console.log("=== Data Processing Completed ===")
Completed ==
    /\ pc = "main"
    /\ Len(output) = Len(Processors)
    /\ pc' = "completed"
    /\ UNCHANGED <<input, output, files, metricsSets, merged, sleepData, sessions>>

NextMain == RunProcessor \/ Completed

SpecMain == InitMain /\ [][NextMain]_vars

\* main is one synchronous call: it runs to its end.  The fairness is on the
\* callback as main sees it, whose steps are those of RunProcessor
SpecMainFair == SpecMain /\ WF_<<pc, output>>(Callback \/ Completed)

\* the files of the sources directory that can be read and parsed
ReadableFiles ==
    LET Ok(file) == file.ok
    IN  SelectSeq(files, Ok)

\* every processor of the list has run, in the order of the list, and the
\* health data are those of the files that could be read
AllProcessorsRan ==
    /\ Len(output) = Len(Processors)
    /\ \A i \in DOMAIN Processors :
           /\ output[i].name = Processors[i]
           /\ output[i].result = IF Processors[i] \in input THEN "error" ELSE "processed"
    /\ "Health" \notin input => merged = process(ReadableFiles)

\* C23: processing continues after a failure: when one processor throws, main
\* still runs every later processor of the list, and a health file that
\* cannot be read or parsed gives an empty list while the remaining files are
\* still parsed and merged
C23_ProcessingContinues == <>(pc = "completed" /\ AllProcessorsRan)

\* main has completed after Training threw, with the health data of a file
\* that follows one that could not be read
C23_Witness ==
    /\ pc = "completed"
    /\ input = {"Training"}
    /\ Len(files) = 2 /\ ~files[1].ok /\ files[2].ok
    /\ output[3].result = "processed"
    /\ merged # <<>>

(***************************************************************************)
(* BaseProcessor.createWeeklyMetrics.  A Date at midnight is its day       *)
(* number, counted from Monday 2024-01-01; the local calendar day of       *)
(* new Date("YYYY-MM-DD"), which is midnight UTC, is the same day in a     *)
(* time zone at or east of UTC and the day before in one west of it.  A    *)
(* week key `${year}-week-${week}` is the pair <<year, week>>.             *)
(***************************************************************************)
ISO_WEEK_DIVISOR == 7

ISO_WEEK_BASE == 4

\* the day number of 1 January of a year from 2023 to 2028
DaysBeforeYear(year) == 365 * (year - 2024) + ((year - 2024) + 3) \div 4

\* Date.UTC(year, month - 1, day) / MILLISECONDS_PER_DAY
DayNumber(date) ==
    LET leap == date[1] % 4 = 0
        before == <<0, 31, 59, 90, 120, 151, 181, 212, 243, 273, 304, 334>>
    IN  DaysBeforeYear(date[1]) + before[date[2]]
        + (IF leap /\ date[2] > 2 THEN 1 ELSE 0) + date[3] - 1

\* getUTCFullYear / getFullYear of a day number
FullYear(day) ==
    CHOOSE year \in 2023..2027 :
        DaysBeforeYear(year) <= day /\ day < DaysBeforeYear(year + 1)

\* getWeekNumber(date)
getWeekNumber(day) ==
    LET utcDay    == (day + 1) % 7
        dayNum    == IF utcDay = 0 THEN ISO_WEEK_DIVISOR ELSE utcDay
        d         == day + ISO_WEEK_BASE - dayNum
        yearStart == DaysBeforeYear(FullYear(d))
    IN  ((d - yearStart) + 1 + (ISO_WEEK_DIVISOR - 1)) \div ISO_WEEK_DIVISOR

\* the weekKey createWeeklyMetrics gives a record
WeekKey(record, timeZone) ==
    LET date == DayNumber(record.date) - (IF timeZone = "west" THEN 1 ELSE 0)
    IN  <<FullYear(date), getWeekNumber(date)>>

\* createWeeklyMetrics(dailyMetrics) in a time zone
createWeeklyMetrics(dailyMetrics, timeZone) ==
    LET sortedData == SortByDate(dailyMetrics)
        RECURSIVE Keys(_, _)
        Keys(seen, i) ==
            IF i > Len(sortedData) THEN seen
            ELSE LET weekKey == WeekKey(sortedData[i], timeZone)
                 IN  Keys(IF \E k \in DOMAIN seen : seen[k] = weekKey THEN seen
                          ELSE Append(seen, weekKey), i + 1)
        weekKeys == Keys(<<>>, 1)
    IN  [k \in DOMAIN weekKeys |->
            LET OfWeek(record) == WeekKey(record, timeZone) = weekKeys[k]
                days == SelectSeq(sortedData, OfWeek)
            IN  [week |-> weekKeys[k], totalDays |-> Len(days), days |-> days]]

(***************************************************************************)
(* SpecWeeks: createWeeklyMetrics on day records around the turn of a year *)
(***************************************************************************)
MaxDays == 2

\* Monday to Monday of the first week of 2024, the days from Sunday
\* 29 December 2024 to Monday 6 January 2025, and the days from Thursday
\* 31 December 2026, in ISO week 53, to Monday 4 January 2027
WeekDates ==
    { <<2024, 1, 1>>, <<2024, 1, 7>>, <<2024, 1, 8>>,
      <<2024, 12, 29>>, <<2024, 12, 30>>, <<2024, 12, 31>>,
      <<2025, 1, 1>>, <<2025, 1, 5>>, <<2025, 1, 6>>,
      <<2026, 12, 31>>, <<2027, 1, 1>>, <<2027, 1, 3>>, <<2027, 1, 4>> }

InitWeeks ==
    /\ pc = "input"
    /\ input \in SeqsUpTo({[date |-> date, metrics |-> EmptyMetrics,
                            exercises |-> NoList, description |-> Undefined] :
                               date \in WeekDates}, MaxDays)
    /\ output = <<>>
    /\ metricsSets = <<>>
    /\ merged = <<>>
    /\ sleepData = <<>>
    /\ sessions = NoSessions
    /\ files = <<>>

\* createWeeklyMetrics(input) of a process in a time zone
CreateWeeklyMetrics ==
    /\ pc = "input"
    /\ \E timeZone \in {"UTC", "west"} :
        /\ output' = createWeeklyMetrics(input, timeZone)
        /\ pc' = timeZone
    /\ UNCHANGED <<input, metricsSets, merged, sleepData, sessions, files>>

SpecWeeks == InitWeeks /\ [][CreateWeeklyMetrics]_vars

\* the two dates fall in the same ISO-8601 week, Monday to Sunday
SameISOWeek(a, b) == DayNumber(a) \div 7 = DayNumber(b) \div 7

\* the two dates are days of one week of the output
SameWeekKey(a, b) ==
    \E k \in DOMAIN output :
        /\ \E i \in DOMAIN output[k].days : output[k].days[i].date = a
        /\ \E i \in DOMAIN output[k].days : output[k].days[i].date = b

\* C24: two day records get the same week key if and only if their dates
\* fall in the same ISO-8601 week, also around the turn of the year
C24_GroupedByISOWeek ==
    pc \in {"UTC", "west"}
        => \A i, j \in DOMAIN input :
               SameWeekKey(input[i].date, input[j].date)
                   <=> SameISOWeek(input[i].date, input[j].date)

\* the ISO week of the date belongs to the calendar year of the date
InOwnYear(date) ==
    FullYear(DayNumber(date) - (DayNumber(date) % 7) + 3) = date[1]

\* at or east of UTC, days whose ISO week belongs to their own calendar year
\* get the same week key if and only if they fall in the same ISO week
C24_GroupedByISOWeekInsideYear ==
    pc = "UTC"
        => \A i, j \in DOMAIN input :
               InOwnYear(input[i].date) /\ InOwnYear(input[j].date)
                   => (SameWeekKey(input[i].date, input[j].date)
                           <=> SameISOWeek(input[i].date, input[j].date))

(***************************************************************************)
(* Claims on the sessions as runs of the start-sorted records              *)
(***************************************************************************)
\* the records from a to b of the start-sorted records are a maximal run:
\* each starts at most 30 minutes after the end of the one before it, the
\* first more than 30 minutes after the end of the record before it, and the
\* record after the last more than 30 minutes after its end
MaximalRun(sorted, a, b) ==
    /\ a <= b
    /\ \A i \in a..(b - 1) : Gap(sorted[i], sorted[i + 1]) <= ThirtyMinutes
    /\ a > 1 => Gap(sorted[a - 1], sorted[a]) > ThirtyMinutes
    /\ b < Len(sorted) => Gap(sorted[b], sorted[b + 1]) > ThirtyMinutes

\* every returned session is a maximal run of the records sorted by start
SessionsAreMaximalRuns(sorted) ==
    \A k \in 1..Len(sessions.list) :
        \E a, b \in 1..Len(sorted) :
            /\ sessions.list[k].records = SubSeq(sorted, a, b)
            /\ MaximalRun(sorted, a, b)

\* C25: every session returned by the grouper is a maximal run of the
\* start-sorted records that have both timestamps: ascending starts, each
\* record at most the threshold after the end of the one before it, and the
\* first record of a session more than the threshold after the end of the
\* record that precedes it in start order
C25_SessionsAreMaximalRuns ==
    pc \in {"SleepCalculator", "HealthProcessor"}
        => /\ ~sessions.threw
           /\ SessionsAreMaximalRuns(ArraySort("start", WithoutUnstamped(sleepData)))

\* the same of a night whose records all have both timestamps
C25_SessionsAreMaximalRunsOfStamped ==
    (pc \in {"SleepCalculator", "HealthProcessor"} /\ AllStamped(sleepData))
        => /\ ~sessions.threw
           /\ SessionsAreMaximalRuns(ArraySort("start", sleepData))

\* the grouper has returned two sessions, the first of two records
C25_Witness ==
    /\ pc \in {"SleepCalculator", "HealthProcessor"}
    /\ AllStamped(sleepData)
    /\ Len(sessions.list) = 2
    /\ Len(sessions.list[1].records) = 2

(***************************************************************************)
(* Claims on the records the grouper keeps                                 *)
(***************************************************************************)
\* how many times the record occurs in the list
Occurrences(list, record) ==
    Cardinality({i \in 1..Len(list) : list[i] = record})

\* how many times the record occurs in the sessions of the returned mapping
OccurrencesInSessions(record) ==
    LET RECURSIVE Total(_)
        Total(k) == IF k = 0 THEN 0
                    ELSE Total(k - 1) + Occurrences(sessions.list[k].records, record)
    IN  Total(Len(sessions.list))

\* every input record with both timestamps is in exactly one session
NoRecordLost ==
    \A i \in 1..Len(sleepData) :
        Stamped(sleepData[i])
            => OccurrencesInSessions(sleepData[i]) = Occurrences(sleepData, sleepData[i])

\* two sessions get the same key: a record starts more than 30 minutes after
\* the end of the record before it, on the UTC date an earlier record starts on
SameKeyTwice ==
    LET sorted == ArraySort("start", sleepData)
    IN  \E i, j \in 1..Len(sorted) :
            /\ i < j
            /\ Gap(sorted[j - 1], sorted[j]) > ThirtyMinutes
            /\ SessionKey("iso", sorted[i].startDate) = SessionKey("iso", sorted[j].startDate)

\* C26: the grouper loses no record: every input record that has both a
\* start and an end timestamp is in exactly one session of the returned
\* mapping, also when two sessions start on the same calendar date
C26_NoRecordLost ==
    pc \in {"SleepCalculator", "HealthProcessor"}
        => (~sessions.threw /\ NoRecordLost)

\* the same of stamped records no two sessions of which get the same key
C26_NoRecordLostUnderDistinctKeys ==
    (pc \in {"SleepCalculator", "HealthProcessor"} /\ AllStamped(sleepData) /\ ~SameKeyTwice)
        => (~sessions.threw /\ NoRecordLost)

\* three records with both timestamps have been grouped into two sessions
C26_Witness ==
    /\ pc \in {"SleepCalculator", "HealthProcessor"}
    /\ AllStamped(sleepData) /\ ~SameKeyTwice
    /\ Len(sleepData) = 3
    /\ Len(sessions.list) = 2

(***************************************************************************)
(* SpecGrouping: flatMerge applied to three parser outputs at once, or to  *)
(* the result of an inner flatMerge and the remaining output               *)
(***************************************************************************)
\* the DailyMetrics of the first date, and one of the second
GroupingRecords ==
    {r \in MergeRecords : r.date = <<2025, 8, 17>> \/ r.description = "Push day"}

\* three parser outputs holding at most MaxRecs DailyMetrics together
GroupingInputs ==
    UNION { { <<SubSeq(all, 1, cut[1]), SubSeq(all, cut[1] + 1, cut[2]),
                SubSeq(all, cut[2] + 1, Len(all))>> :
                cut \in {c \in (0..Len(all)) \X (0..Len(all)) : c[1] <= c[2]} } :
            all \in SeqsUpTo(GroupingRecords, MaxRecs) }

InitGrouping ==
    /\ pc = "input"
    /\ metricsSets \in GroupingInputs
    /\ merged = <<>>
    /\ sleepData = <<>>
    /\ sessions = [threw |-> FALSE, list |-> <<>>]
    /\ files = <<>>
    /\ input = <<>>
    /\ output = <<>>

\* the calls of flatMerge that a grouping of the three outputs makes
FlatMergeGrouped(A, B, C, grouping) ==
    CASE grouping = "flat"  -> flatMerge(<<A, B, C>>)
      [] grouping = "left"  -> flatMerge(<<flatMerge(<<A, B>>), C>>)
      [] grouping = "right" -> flatMerge(<<A, flatMerge(<<B, C>>)>>)
      [] grouping = "again" -> flatMerge(<<flatMerge(<<A, B, C>>)>>)

\* MetricsMerger.flatMerge called once, or on the result of an inner call
FlatMergeNested ==
    /\ pc = "input"
    /\ \E grouping \in {"flat", "left", "right", "again"} :
          /\ merged' = FlatMergeGrouped(metricsSets[1], metricsSets[2], metricsSets[3], grouping)
          /\ pc' = grouping
    /\ UNCHANGED <<metricsSets, sleepData, sessions, files, input, output>>

SpecGrouping == InitGrouping /\ [][FlatMergeNested]_vars

\* C27: merging is associative over the source order: flatMerge([A, B, C]),
\* flatMerge([flatMerge([A, B]), C]) and flatMerge([A, flatMerge([B, C])]) are
\* equal in dates, metrics, exercises and description, and flatMerge of the
\* result of flatMerge alone is that result
C27_MergeAssociative ==
    pc \in {"left", "right", "again"} => merged = flatMerge(metricsSets)

\* the three outputs each hold a record of one date, with descriptions and
\* exercises that differ, and the inner call was on the last two
C27_Witness ==
    /\ pc = "right"
    /\ \A s \in 1..3 : Len(metricsSets[s]) = 1
    /\ metricsSets[1][1].date = metricsSets[2][1].date
    /\ metricsSets[2][1].date = metricsSets[3][1].date
    /\ metricsSets[1][1].description = "Push day"
    /\ metricsSets[2][1].description = "Leg day"
    /\ metricsSets[3][1].description = ""
    /\ Len(merged) = 1
    /\ merged[1].description = "Leg day"
    /\ merged[1].exercises = SomeList(<<"Bench Press", "Squat">>)

(***************************************************************************)
(* flatMerge on objects: a heap is a sequence of objects, the reference to *)
(* an object is its index, and 0 stands for undefined.  A list is          *)
(* [kind |-> "list", items], a metrics map [kind |-> "metrics", map], a    *)
(* DailyMetrics [kind |-> "record", date, metrics, exercises, description] *)
(* with references for metrics and exercises, and an array of DailyMetrics *)
(* [kind |-> "array", items] with references for items.                    *)
(***************************************************************************)
\* a new object: the heap with it, and the reference to it
New(heap, object) == [heap |-> Append(heap, object), ref |-> Len(heap) + 1]

\* mutant: exercises: dailyMetrics.exercises, the list of the input itself
ExercisesShared(heap, exercises) == [heap |-> heap, ref |-> exercises]

\* dailyMetrics.exercises ? [...dailyMetrics.exercises] : undefined
ExercisesCopy(heap, exercises) ==
    IF exercises = 0 THEN [heap |-> heap, ref |-> 0]
    ELSE New(heap, [kind |-> "list", items |-> heap[exercises].items])

\* the body of flatMerge's inner loop for the DailyMetrics at a reference;
\* st.byDate is mergedByDate, the references of its records in insertion order
FlatMergeOneOnHeap(st, dailyMetrics) ==
    LET heap == st.heap
        daily == heap[dailyMetrics]
        i == IndexOfDate(st.byDate, daily.date)
    IN  IF i = 0
        THEN LET metrics   == New(heap, [kind |-> "metrics", map |-> heap[daily.metrics].map])
                 exercises == ExercisesCopy(metrics.heap, daily.exercises)
                 record    == New(exercises.heap,
                                  [kind        |-> "record",
                                   date        |-> daily.date,
                                   metrics     |-> metrics.ref,
                                   exercises   |-> exercises.ref,
                                   description |-> daily.description])
             IN  [heap   |-> record.heap,
                  byDate |-> Append(st.byDate, [date |-> daily.date, ref |-> record.ref])]
        ELSE LET existing  == st.byDate[i].ref
                 metrics   == New(heap, [kind |-> "metrics",
                                         map  |-> MergeMetrics(heap[heap[existing].metrics].map,
                                                               heap[daily.metrics].map)])
                 spread    == [metrics.heap EXCEPT ![existing].metrics = metrics.ref]
                 pushed    ==
                    IF daily.exercises = 0 THEN spread
                    ELSE IF spread[existing].exercises # 0
                    THEN [spread EXCEPT ![spread[existing].exercises].items =
                              @ \o spread[daily.exercises].items]
                    ELSE LET copy == ExercisesCopy(spread, daily.exercises)
                         IN  [copy.heap EXCEPT ![existing].exercises = copy.ref]
                 described ==
                    IF TruthyString(daily.description)
                    THEN [pushed EXCEPT ![existing].description = daily.description]
                    ELSE pushed
             IN  [heap |-> described, byDate |-> st.byDate]

\* the inner loop over the DailyMetrics of one metricsSet
RECURSIVE FlatMergeSetOnHeap(_, _)
FlatMergeSetOnHeap(st, items) ==
    IF items = <<>> THEN st
    ELSE FlatMergeSetOnHeap(FlatMergeOneOnHeap(st, Head(items)), Tail(items))

\* the outer loop over the metricsSets
RECURSIVE FlatMergeSetsOnHeap(_, _)
FlatMergeSetsOnHeap(st, sets) ==
    IF sets = <<>> THEN st
    ELSE FlatMergeSetsOnHeap(FlatMergeSetOnHeap(st, st.heap[Head(sets)].items), Tail(sets))

\* MetricsMerger.flatMerge of the arrays at the references: the heap after
\* the call and the reference to the returned array
flatMergeOnHeap(heap, sets) ==
    LET st     == FlatMergeSetsOnHeap([heap |-> heap, byDate |-> <<>>], sets)
        sorted == SortByDate(st.byDate)
    IN  New(st.heap, [kind |-> "array", items |-> [i \in 1..Len(sorted) |-> sorted[i].ref]])

(***************************************************************************)
(* SpecFrame: flatMerge is called on two arrays of DailyMetrics that may   *)
(* share records, metrics maps and exercises lists, and afterwards a       *)
(* caller appends to an exercises list of a returned record.               *)
(***************************************************************************)
\* two exercises lists, two metrics maps, two DailyMetrics and two arrays;
\* input is the heap at the call and the references of the two arrays
InitFrame ==
    /\ pc = "input"
    /\ \E date1, date2 \in MergeDates, exercises1, exercises2 \in 0..2, metrics2 \in 3..4 :
       \E cut \in { c \in [all : SeqsUpTo(5..6, MaxRecs), at : 0..MaxRecs] : c.at <= Len(c.all) } :
          input = [heap |->
                    << [kind |-> "list", items |-> <<"Bench Press">>],
                       [kind |-> "list", items |-> <<"Squat">>],
                       [kind |-> "metrics", map |-> [k \in {"HeartRate"} |-> Num(7200)]],
                       [kind |-> "metrics", map |-> [k \in {"HeartRate", "StepCount"} |->
                                   IF k = "HeartRate" THEN Num(6800) ELSE Num(850000)]],
                       [kind |-> "record", date |-> date1, metrics |-> 3,
                        exercises |-> exercises1, description |-> Undefined],
                       [kind |-> "record", date |-> date2, metrics |-> metrics2,
                        exercises |-> exercises2, description |-> "Push day"],
                       [kind |-> "array", items |-> SubSeq(cut.all, 1, cut.at)],
                       [kind |-> "array", items |-> SubSeq(cut.all, cut.at + 1, Len(cut.all))] >>,
                   sets |-> <<7, 8>>]
    /\ output = <<>>
    /\ metricsSets = <<>>
    /\ merged = <<>>
    /\ sleepData = <<>>
    /\ sessions = [threw |-> FALSE, list |-> <<>>]
    /\ files = <<>>

\* MetricsMerger.flatMerge(metricsSets); output is the heap after the call
\* and the reference of the returned array
FlatMergeObjects ==
    /\ pc = "input"
    /\ output' = flatMergeOnHeap(input.heap, input.sets)
    /\ pc' = "flatMerge"
    /\ UNCHANGED <<input, metricsSets, merged, sleepData, sessions, files>>

\* a caller appends an exercise to the exercises list of a returned record
AppendToOutput ==
    /\ pc = "flatMerge"
    /\ \E i \in 1..Len(output.heap[output.ref].items) :
          LET record == output.heap[output.heap[output.ref].items[i]]
          IN  /\ record.exercises # 0
              /\ output' = [output EXCEPT !.heap[record.exercises].items =
                                Append(@, "Deadlift")]
    /\ pc' = "appended"
    /\ UNCHANGED <<input, metricsSets, merged, sleepData, sessions, files>>

NextFrame == FlatMergeObjects \/ AppendToOutput

SpecFrame == InitFrame /\ [][NextFrame]_vars

\* the records of the returned array
Returned == LET array == output.heap[output.ref].items
            IN  [i \in 1..Len(array) |-> output.heap[array[i]]]

\* every object of the heap at the call holds what it held
InputsUnchanged ==
    \A ref \in 1..Len(input.heap) : output.heap[ref] = input.heap[ref]

\* C29: flatMerge leaves its inputs unchanged: every input list, DayRecord,
\* metrics map and exercises list holds what it held before the call, no
\* exercises list or metrics map of an output record is an object of the
\* input, and later appends to an output do not alter an input
C29_InputsUnchanged ==
    pc \in {"flatMerge", "appended"}
        => /\ InputsUnchanged
           /\ \A i \in 1..Len(Returned) :
                /\ Returned[i].metrics > Len(input.heap)
                /\ Returned[i].exercises = 0 \/ Returned[i].exercises > Len(input.heap)

\* a record in both arrays, its exercises pushed to the list copied from an
\* input, and the list appended to after the call
C29_Witness ==
    /\ pc = "appended"
    /\ input.heap[7].items = <<5>> /\ input.heap[8].items = <<6, 5>>
    /\ input.heap[5].date = input.heap[6].date
    /\ input.heap[5].exercises = 1 /\ input.heap[6].exercises = 1
    /\ Len(Returned) = 1
    /\ output.heap[Returned[1].exercises].items =
          <<"Bench Press", "Bench Press", "Bench Press", "Deadlift">>

(***************************************************************************)
(* Claims on the DayRecords of HealthCSVParser                             *)
(***************************************************************************)
\* the records of the input that parseCSVRecord gives a HealthRecord for
ParsedRecords == parseHKCSV(input)

\* every date of the parsed records has a record that yields a metric of
\* that date: a body metric, a step count or a heart rate
EveryDateMeasured ==
    \A i \in 1..Len(ParsedRecords) :
        \E j \in 1..Len(ParsedRecords) :
            /\ ParsedRecords[j].date = ParsedRecords[i].date
            /\ ParsedRecords[j].type \in RecognizedTypes
                                          \ {"HKCategoryTypeIdentifierSleepAnalysis"}

\* C30: every DayRecord that HealthCSVParser.parseFile returns holds at
\* least one metric, also when the only records of its date are sleep
\* records of a session that started on an earlier date or records whose
\* type produces no metric
C30_EveryDayRecordHoldsAMetric ==
    pc = "HealthCSVParser"
        => \A i \in 1..Len(output) : DOMAIN output[i].metrics # {}

\* the same of a file every date of which has a body metric, a step count
\* or a heart rate
C30_MeasuredDatesHoldAMetric ==
    (pc = "HealthCSVParser" /\ EveryDateMeasured)
        => \A i \in 1..Len(output) : DOMAIN output[i].metrics # {}

\* the second case alone: when a night's second record, after midnight, is
\* the only record of its date, no DayRecord of that date is without metrics
C30_SleepAfterMidnight ==
    ~(/\ pc = "HealthCSVParser"
      /\ Len(input) = 2
      /\ \A i \in 1..2 : input[i].type = "HKCategoryTypeIdentifierSleepAnalysis"
      /\ input[1].startDate.date = Aug24 /\ input[2].startDate.date = Aug25
      /\ \E i \in 1..Len(output) : output[i].date = Aug25 /\ DOMAIN output[i].metrics = {})

====
